---- MODULE Spec2Model ----
(***************************************************************************)
(* youtube-guardian: the rule-based classification path, the stored rows   *)
(* of the two batch jobs, and the channel enrichment.                      *)
(*                                                                         *)
(*   rating-parser.js      RATING_SCHEMES, parseContentRating,             *)
(*                         getMostRestrictiveRating, getFlagSeverity,      *)
(*                         formatRating                                    *)
(*   content-classifier.js checkKeywords, classifyVideo, classifyAllVideos *)
(*   channel-analyzer.js   buildChannelProfiles, enrichChannelProfiles     *)
(*   ai-analyzer.js        storeTags, analyzeVideo, analyzeAllVideos       *)
(*                                                                         *)
(* A JavaScript string is a sequence of one-character strings, so that     *)
(* toLowerCase, toUpperCase, includes and join are computed and not        *)
(* assumed.  Fixed texts that the code only passes along (type tags,       *)
(* descriptions, message templates, object keys, ids) are TLA+ strings.    *)
(***************************************************************************)
EXTENDS Integers, Sequences, FiniteSets, TLC

VARIABLES
    video,            \* classifyVideo: the video argument
    blocklist,        \* classifyVideo: the blocklist argument
    channelProfile,   \* classifyVideo: the channelProfile argument
    result,           \* classifyVideo: the returned object
    contentRating,    \* parseContentRating: its argument
    parsedRatings,    \* getMostRestrictiveRating: its argument
    mostRestrictive,  \* getMostRestrictiveRating: its return value
    videoDetails,     \* the corpus: the video records, in key order
    channelProfiles,  \* analyzeChannels: the profiles it returned
    results,          \* classifyAllVideos: the results list
    summary,          \* classifyAllVideos: the risk-level counters
    db,               \* the database: one sequence of rows per table
    runs,             \* the batch jobs started so far, in order
    captions,         \* ids of the videos whose caption file exists
    toAnalyze,        \* analyzeAllVideos: limitedToAnalyze, as video ids
    aiResults,        \* analyzeAllVideos: the results object
    aiIndex,          \* analyzeAllVideos: the loop variable i
    answer,           \* analyzeVideo: what the last oracle call came to
    oracleWaited,     \* a delay has passed since the run's last oracle call
    cacheFile,        \* the channel cache file: ids that have an entry
    cache,            \* enrichChannelProfiles: the cache object
    profiles,         \* enrichChannelProfiles: the profiles, in key order
    fetched,          \* enrichChannelProfiles: the fetched counter
    fetchLog,         \* this run's fetchChannelInfo calls, in call order
    entry,            \* enrichChannelProfiles: entries already visited
    pastFetches,      \* the fetchChannelInfo calls of each completed run
    fetchWaited,      \* a delay has passed since the run's last channel fetch
    watched,          \* analyzeVideos: the distinct ids of the watch history
    videoStore,       \* the videos table: id and fetch stamp of each row
    uncachedIds,      \* analyzeVideos: uncachedIds
    batchStart,       \* analyzeVideos: the loop variable i
    videoRequests,    \* this run's fetchVideoBatch calls, in call order
    pastRequests,     \* the fetchVideoBatch calls of each completed run
    watchHistory,     \* buildChannelProfiles: the watch events
    channelStats,     \* buildChannelProfiles: first/last watched, top items
    transcript,       \* analyzeWithAI: its argument, as UTF-16 code units
    truncated,        \* analyzeWithAI: the text put into the request
    videoIds,         \* downloadAllVideos: its videoIds argument
    downloaded,       \* ids whose .mp4 file exists in the videos directory
    dlIndex,          \* downloadAllVideos: videos already visited
    dlResults,        \* downloadAllVideos: the results object
    attempt,          \* fetchVideoUrl: the attempt argument, 0 outside a call
    urlRequests,      \* requests sent to the endpoint, one count per video
    waits,            \* fetchVideoUrl: the sleeps of the current call, in ms
    response,         \* fetchVideoUrl: what the last request came to
    pc                \* position of the run

storeVars == <<summary, db, runs>>

aiVars == <<captions, toAnalyze, aiResults, aiIndex, answer, oracleWaited>>

enrichVars ==
    <<cacheFile, cache, profiles, fetched, fetchLog, entry, pastFetches,
      fetchWaited>>

fetchVars ==
    <<watched, videoStore, uncachedIds, batchStart, videoRequests, pastRequests>>

profileVars == <<watchHistory, channelStats>>

textVars == <<transcript, truncated>>

downloadVars ==
    <<videoIds, downloaded, dlIndex, dlResults, attempt, urlRequests, waits,
      response>>

extraVars == <<fetchVars, profileVars, textVars, downloadVars>>

vars == <<video, blocklist, channelProfile, result, contentRating,
          parsedRatings, mostRestrictive, videoDetails, channelProfiles,
          results, storeVars, aiVars, enrichVars, extraVars, pc>>

(***************************************************************************)
(* Bounds of the model.                                                    *)
(***************************************************************************)
MaxWatched == 11      \* largest videosWatched of a supplied channel profile
MaxKidsCount == 1     \* largest madeForKidsCount of a supplied profile
MaxRatings == 3       \* longest list handed to getMostRestrictiveRating
MaxVideos == 2        \* most videos in the corpus of a batch run
MaxStored == 2        \* most videos in the videos table of the stored runs
MaxRuns == 2          \* most runs of the two batch jobs after the first state
MaxLimit == 1         \* largest limit handed to analyzeAllVideos
MaxChannels == 3      \* most channels handed to enrichChannelProfiles

(***************************************************************************)
(* JavaScript values.                                                      *)
(***************************************************************************)
\* A nullable boolean column: true, false, null (SQL NULL), or the property
\* missing from the object (undefined).
JsBool == {"true", "false", "null", "undefined"}

\* The null of a nullable text column, among character sequences.
NullText == <<"<null>">>

\* age: null of the 'unrated' row.
NullAge == -1

\* What getMostRestrictiveRating returns for no ratings (null), as a record
\* comparable with parsed ratings.
NullRating ==
    [scheme |-> "null", value |-> <<>>, age |-> NullAge,
     severity |-> "null", description |-> "null"]

LowerOf ==
    [c \in {"A","B","C","D","E","F","G","H","I","J","K","L","M","N","O","P",
            "Q","R","S","T","U","V","W","X","Y","Z"} |->
        CASE c = "A" -> "a" [] c = "B" -> "b" [] c = "C" -> "c" [] c = "D" -> "d"
          [] c = "E" -> "e" [] c = "F" -> "f" [] c = "G" -> "g" [] c = "H" -> "h"
          [] c = "I" -> "i" [] c = "J" -> "j" [] c = "K" -> "k" [] c = "L" -> "l"
          [] c = "M" -> "m" [] c = "N" -> "n" [] c = "O" -> "o" [] c = "P" -> "p"
          [] c = "Q" -> "q" [] c = "R" -> "r" [] c = "S" -> "s" [] c = "T" -> "t"
          [] c = "U" -> "u" [] c = "V" -> "v" [] c = "W" -> "w" [] c = "X" -> "x"
          [] c = "Y" -> "y" [] c = "Z" -> "z"]

\* String.prototype.toLowerCase
toLowerCase(s) ==
    [i \in 1..Len(s) |-> IF s[i] \in DOMAIN LowerOf THEN LowerOf[s[i]] ELSE s[i]]

\* String.prototype.toUpperCase
toUpperCase(s) ==
    [i \in 1..Len(s) |->
        IF \E u \in DOMAIN LowerOf : LowerOf[u] = s[i]
        THEN CHOOSE u \in DOMAIN LowerOf : LowerOf[u] = s[i]
        ELSE s[i]]

\* String.prototype.includes
includes(text, k) ==
    \E i \in 0..(Len(text) - Len(k)) : SubSeq(text, i + 1, i + Len(k)) = k

\* Array.prototype.join over strings
RECURSIVE join(_, _)
join(list, sep) ==
    IF list = <<>> THEN <<>>
    ELSE IF Len(list) = 1 THEN list[1]
    ELSE list[1] \o sep \o join(Tail(list), sep)

\* Array.prototype.includes
arrayIncludes(list, x) == \E i \in 1..Len(list) : list[i] = x

(***************************************************************************)
(* rating-parser.js                                                        *)
(***************************************************************************)
RatingInfo(a, sev, d) == [age |-> a, severity |-> sev, description |-> d]

RATING_SCHEMES ==
    [mpaa |->
        (<<"g">> :> RatingInfo(0, "SAFE", "General Audiences")) @@
        (<<"p","g">> :> RatingInfo(7, "GUIDANCE", "Parental Guidance Suggested")) @@
        (<<"p","g","1","3">> :> RatingInfo(13, "TEEN", "Parents Strongly Cautioned")) @@
        (<<"r">> :> RatingInfo(17, "MATURE", "Restricted")) @@
        (<<"n","c","1","7">> :> RatingInfo(18, "ADULT", "Adults Only")) @@
        (<<"u","n","r","a","t","e","d">> :> RatingInfo(NullAge, "UNKNOWN", "Unrated")),
     bbfc |->
        (<<"u">> :> RatingInfo(0, "SAFE", "Universal")) @@
        (<<"p","g">> :> RatingInfo(8, "GUIDANCE", "Parental Guidance")) @@
        (<<"1","2">> :> RatingInfo(12, "TEEN", "Suitable for 12 years and over")) @@
        (<<"1","2","a">> :> RatingInfo(12, "TEEN", "Suitable for 12 years and over (with adult)")) @@
        (<<"1","5">> :> RatingInfo(15, "TEEN", "Suitable only for 15 years and over")) @@
        (<<"1","8">> :> RatingInfo(18, "ADULT", "Suitable only for adults")) @@
        (<<"r","1","8">> :> RatingInfo(18, "ADULT", "Restricted 18"))]

\* A contentRating object is [isObject, entries]: entries is the sequence of
\* its <<key, value>> properties in insertion order (keys distinct).
\* isObject = FALSE is a null column.
HasKey(cr, key) == \E i \in 1..Len(cr.entries) : cr.entries[i][1] = key

\* cr[key]; the empty string stands for undefined (both are falsy).
Prop(cr, key) ==
    IF HasKey(cr, key)
    THEN (CHOOSE e \in {cr.entries[i] : i \in 1..Len(cr.entries)} : e[1] = key)[2]
    ELSE <<>>

\* One "Check for ... rating" block of parseContentRating.
ParseScheme(cr, key, scheme, table) ==
    LET raw == Prop(cr, key)
        ratingValue == toLowerCase(raw)
    IN  IF raw # <<>> /\ ratingValue \in DOMAIN table
        THEN <<[scheme |-> scheme,
                value |-> toUpperCase(raw),
                age |-> table[ratingValue].age,
                severity |-> table[ratingValue].severity,
                description |-> table[ratingValue].description]>>
        ELSE <<>>

\* A parse that walks the object's own entries in their order.
ParseInEntryOrder(cr) ==
    IF ~cr.isObject THEN <<>>
    ELSE LET RECURSIVE walk(_)
             walk(es) ==
                IF es = <<>> THEN <<>>
                ELSE (IF es[1][1] = "mpaaRating"
                      THEN ParseScheme(cr, "mpaaRating", "MPAA", RATING_SCHEMES.mpaa)
                      ELSE IF es[1][1] = "bbfcRating"
                      THEN ParseScheme(cr, "bbfcRating", "BBFC", RATING_SCHEMES.bbfc)
                      ELSE <<>>) \o walk(Tail(es))
         IN  walk(cr.entries)

parseContentRating(cr) ==
    IF ~cr.isObject THEN <<>>
    ELSE ParseScheme(cr, "mpaaRating", "MPAA", RATING_SCHEMES.mpaa)
         \o ParseScheme(cr, "bbfcRating", "BBFC", RATING_SCHEMES.bbfc)

\* The callback of the reduce in getMostRestrictiveRating.
Reducer(highest, current) ==
    IF current.age = NullAge THEN highest
    ELSE IF highest.age = NullAge THEN current
    ELSE IF current.age > highest.age THEN current ELSE highest

\* A reduce that keeps the later entry on equal ages and lets a null age win
\* over nothing: the lowest age instead of the highest.
LowestAge(ratings) ==
    IF ratings = <<>> THEN NullRating
    ELSE LET RECURSIVE reduce(_, _)
             reduce(acc, rest) ==
                IF rest = <<>> THEN acc
                ELSE reduce(IF rest[1].age < acc.age THEN rest[1] ELSE acc, Tail(rest))
         IN  reduce(ratings[1], ratings)

getMostRestrictiveRating(ratings) ==
    IF ratings = <<>> THEN NullRating
    ELSE LET RECURSIVE reduce(_, _)
             reduce(acc, rest) ==
                IF rest = <<>> THEN acc
                ELSE reduce(Reducer(acc, rest[1]), Tail(rest))
         IN  reduce(ratings[1], ratings)

getFlagSeverity(severity) ==
    CASE severity \in {"ADULT", "MATURE"} -> "HIGH"
      [] severity = "TEEN" -> "MEDIUM"
      [] severity \in {"GUIDANCE", "SAFE"} -> "LOW"
      [] severity = "UNKNOWN" -> "MEDIUM"
      [] OTHER -> "MEDIUM"

\* `${scheme} ${value} (ages ${age}+) - ${description}`, the age part left
\* out for a null age.
formatRating(rating) ==
    [text |-> IF rating.age = NullAge THEN "scheme value (description)"
              ELSE "scheme value (ages age+) - description",
     scheme |-> rating.scheme, value |-> rating.value,
     age |-> rating.age, description |-> rating.description]

(***************************************************************************)
(* content-classifier.js                                                   *)
(***************************************************************************)
CATEGORY_NAMES ==
    [id \in {"1","2","10","15","17","18","19","20","21","22","23","24","25",
             "26","27","28","29","30","31","32","33","34","35","36","37",
             "38","39","40","41","42","43","44"} |->
        CASE id = "1" -> "Film & Animation" [] id = "2" -> "Autos & Vehicles"
          [] id = "10" -> "Music" [] id = "15" -> "Pets & Animals"
          [] id = "17" -> "Sports" [] id = "18" -> "Short Movies"
          [] id = "19" -> "Travel & Events" [] id = "20" -> "Gaming"
          [] id = "21" -> "Videoblogging" [] id = "22" -> "People & Blogs"
          [] id = "23" -> "Comedy" [] id = "24" -> "Entertainment"
          [] id = "25" -> "News & Politics" [] id = "26" -> "Howto & Style"
          [] id = "27" -> "Education" [] id = "28" -> "Science & Technology"
          [] id = "29" -> "Nonprofits & Activism" [] id = "30" -> "Movies"
          [] id = "31" -> "Anime/Animation" [] id = "32" -> "Action/Adventure"
          [] id = "33" -> "Classics" [] id = "34" -> "Comedy"
          [] id = "35" -> "Documentary" [] id = "36" -> "Drama"
          [] id = "37" -> "Family" [] id = "38" -> "Foreign"
          [] id = "39" -> "Horror" [] id = "40" -> "Sci-Fi/Fantasy"
          [] id = "41" -> "Thriller" [] id = "42" -> "Shorts"
          [] id = "43" -> "Shows" [] id = "44" -> "Trailers"]

\* CATEGORY_NAMES[id] || fallback
CategoryNameOr(id, fallback) ==
    IF id \in DOMAIN CATEGORY_NAMES THEN CATEGORY_NAMES[id] ELSE fallback

\* A keyword check that forgets to lower-case the text.
checkKeywordsCaseSensitive(text, keywords) ==
    IF text = NullText \/ text = <<>> THEN <<>>
    ELSE SelectSeq(keywords, LAMBDA k : includes(text, toLowerCase(k)))

checkKeywords(text, keywords) ==
    IF text = NullText \/ text = <<>> THEN <<>>
    ELSE LET lowerText == toLowerCase(text)
         IN  SelectSeq(keywords, LAMBDA k : includes(lowerText, toLowerCase(k)))

Signal(ft, t, sev, msg) ==
    [flagType |-> ft, type |-> t, severity |-> sev, message |-> msg]

Msg(t, a) == [text |-> t, arg |-> a]

\* "Check keywords" and "Check blocklists": the five blocklist rules.
BlocklistFlags(v, bl) ==
    LET titleMatches == checkKeywords(v.title, bl.keywords)
        descMatches == checkKeywords(v.description, bl.keywords)
        tagMatches == checkKeywords(join(v.tags, <<" ">>), bl.keywords)
    IN  (IF Len(titleMatches) > 0
         THEN <<Signal("flags", "BLOCKLIST_TITLE", "HIGH",
                       Msg("Title: ", join(titleMatches, <<",", " ">>)))>>
         ELSE <<>>)
        \o (IF Len(descMatches) > 0
            THEN <<Signal("flags", "BLOCKLIST_DESCRIPTION", "MEDIUM",
                          Msg("Description: ", join(descMatches, <<",", " ">>)))>>
            ELSE <<>>)
        \o (IF Len(tagMatches) > 0
            THEN <<Signal("flags", "BLOCKLIST_TAGS", "MEDIUM",
                          Msg("Tags: ", join(tagMatches, <<",", " ">>)))>>
            ELSE <<>>)
        \o (IF arrayIncludes(bl.channels, v.channelId)
            THEN <<Signal("flags", "BLOCKLIST_CHANNEL", "HIGH",
                          Msg("Channel is blocked", v.channelTitle))>>
            ELSE <<>>)
        \o (IF arrayIncludes(bl.categories, v.categoryId)
            THEN <<Signal("flags", "BLOCKLIST_CATEGORY", "HIGH",
                          Msg("Category is blocked",
                              CategoryNameOr(v.categoryId, v.categoryId)))>>
            ELSE <<>>)

\* The body of "for (const rating of parsedRatings)": the signal pushed for
\* one rating, with the list it is pushed to, or none.
RatingSignal(rating) ==
    LET flagSeverity == getFlagSeverity(rating.severity)
        message == formatRating(rating)
    IN  IF rating.severity \in {"ADULT", "MATURE"}
        THEN <<Signal("flags", "AGE_RATING_MATURE", flagSeverity, message)>>
        ELSE IF rating.severity = "TEEN"
        THEN <<Signal("warnings", "AGE_RATING_TEEN", flagSeverity, message)>>
        ELSE IF rating.severity = "GUIDANCE"
        THEN <<Signal("info", "AGE_RATING_GUIDANCE", flagSeverity, message)>>
        ELSE <<>>

\* The signals the rating loop pushes to the list named tier, in order.
RECURSIVE RatingSignals(_, _)
RatingSignals(ratings, tier) ==
    IF ratings = <<>> THEN <<>>
    ELSE SelectSeq(RatingSignal(ratings[1]), LAMBDA s : s.flagType = tier)
         \o RatingSignals(Tail(ratings), tier)

\* "Check for madeForKids mismatch"
MismatchInfo(v) ==
    IF v.madeForKids # "undefined" /\ v.selfDeclaredMadeForKids # "undefined"
       /\ v.madeForKids # v.selfDeclaredMadeForKids
    THEN <<Signal("info", "MADE_FOR_KIDS_MISMATCH", "LOW",
                  Msg(IF v.selfDeclaredMadeForKids = "false"
                      THEN "Creator declared NOT for kids, but YouTube determined it IS for kids"
                      ELSE "Creator declared for kids, but YouTube determined it is NOT for kids",
                      <<>>))>>
    ELSE <<>>

\* "Flag content not made for kids"
NotForKidsInfo(v) ==
    IF v.madeForKids = "false"
    THEN <<Signal("info", "NOT_FOR_KIDS", "LOW", Msg("Not marked for kids", <<>>))>>
    ELSE <<>>

\* A channel profile is [defined, channelId, videosWatched, madeForKidsCount,
\* madeForKidsRatio, hasAgeRestriction]; defined = FALSE is the undefined of a
\* failed lookup.  madeForKidsRatio is the exact quotient [num, den].
RatioBelowTenth(r) == 10 * r.num < r.den

ChannelWarnings(p) ==
    IF p.defined /\ p.hasAgeRestriction
    THEN <<Signal("warnings", "CHANNEL_HAS_RESTRICTED_CONTENT", "MEDIUM",
                  Msg("Channel has age-restricted content", <<>>))>>
    ELSE <<>>

\* The kid-focus rule with the threshold test off by one (>= 3).
ChannelInfoFromThree(p) ==
    IF p.defined /\ RatioBelowTenth(p.madeForKidsRatio) /\ p.videosWatched >= 3
    THEN <<Signal("info", "CHANNEL_NOT_KID_FOCUSED", "LOW",
                  Msg("Channel rarely posts kid content", <<>>))>>
    ELSE <<>>

ChannelInfo(p) ==
    IF p.defined /\ RatioBelowTenth(p.madeForKidsRatio) /\ p.videosWatched > 3
    THEN <<Signal("info", "CHANNEL_NOT_KID_FOCUSED", "LOW",
                  Msg("Channel rarely posts kid content", <<>>))>>
    ELSE <<>>

\* A derivation that reads the severity labels instead of the lists.
RiskLevelBySeverity(flags, warnings) ==
    IF \E i \in 1..Len(flags) : flags[i].severity = "HIGH" THEN "HIGH"
    ELSE IF Len(flags) > 0 \/ Len(warnings) > 0 THEN "MEDIUM"
    ELSE "LOW"

RiskLevel(flags, warnings) ==
    IF Len(flags) > 0 THEN "HIGH"
    ELSE IF Len(warnings) > 0 THEN "MEDIUM"
    ELSE "LOW"

classifyVideo(v, bl, p) ==
    LET ratings == parseContentRating(v.contentRating)
        flags == BlocklistFlags(v, bl) \o RatingSignals(ratings, "flags")
        warnings == RatingSignals(ratings, "warnings") \o ChannelWarnings(p)
        info == RatingSignals(ratings, "info") \o MismatchInfo(v)
                \o NotForKidsInfo(v) \o ChannelInfo(p)
    IN  [videoId |-> v.id,
         title |-> v.title,
         channelTitle |-> v.channelTitle,
         categoryId |-> v.categoryId,
         categoryName |-> CategoryNameOr(v.categoryId, "Unknown"),
         riskLevel |-> RiskLevel(flags, warnings),
         flags |-> flags,
         warnings |-> warnings,
         info |-> info]

(***************************************************************************)
(* Inputs.                                                                 *)
(***************************************************************************)
GraphicNovelReview ==
    <<"G","r","a","p","h","i","c"," ","N","o","v","e","l"," ","R","e","v","i","e","w">>

Titles == {GraphicNovelReview, <<"C","a","t","s">>}

Descriptions == {NullText, <<>>, <<"s","o"," ","G","R","A","P","H","I","C">>}

TagLists == {<<>>, <<<<"N","o","v","e","l">>, <<"R","e","v","i","e","w">>>>,
             <<<<"g","o","r","e">>>>}

Graphic == <<"g","r","a","p","h","i","c">>
Gore == <<"G","o","r","e">>
NovelR == <<"n","o","v","e","l"," ","r">>

\* blocklist.keywords as the user may have written them; the last holds an
\* empty keyword.
KeywordLists == {<<>>, <<Graphic>>, <<Gore, NovelR>>, <<Graphic, Gore>>, << <<>> >>}

ChannelLists == {<<>>, <<"UC1">>, <<"UC2">>}
CategoryLists == {<<>>, <<"20">>, <<"27">>}

Blocklist(k, ch, cat) == [keywords |-> k, channels |-> ch, categories |-> cat]

EmptyBlocklist == Blocklist(<<>>, <<>>, <<>>)

Video(i, t, d, tg, ch, cat, cr, mfk, sd) ==
    [id |-> i, title |-> t, description |-> d, tags |-> tg, channelId |-> ch,
     channelTitle |-> <<"C","h">>, categoryId |-> cat, contentRating |-> cr,
     madeForKids |-> mfk, selfDeclaredMadeForKids |-> sd]

Rating(es) == [isObject |-> TRUE, entries |-> es]
NoRatingObject == [isObject |-> FALSE, entries |-> <<>>]

MpaaCodes ==
    {<<"G">>, <<"P","G">>, <<"P","G","1","3">>, <<"p","g","1","3">>,
     <<"P","G","-","1","3">>, <<"R">>, <<"N","C","1","7">>,
     <<"u","n","r","a","t","e","d">>, <<"m","p","a","a","P","g","1","3">>}

BbfcCodes == {<<"U">>, <<"1","2","A">>, <<"1","5">>, <<"1","8">>, <<"x","x">>}

\* Every content-rating object of one property, and those of two schemes
\* in both insertion orders.
SingleRatings ==
    {Rating(<<<<"mpaaRating", c>>>>) : c \in MpaaCodes}
    \cup {Rating(<<<<"bbfcRating", c>>>>) : c \in BbfcCodes}
    \cup {Rating(<<<<"mpaa", <<"P","G","-","1","3">>>>>>),
          Rating(<<<<"ytRating", <<"y","t","A","g","e","R","e","s","t","r","i","c","t","e","d">>>>>>)}

DoubleRatings ==
    UNION {{Rating(<<<<"mpaaRating", m>>, <<"bbfcRating", b>>>>),
            Rating(<<<<"bbfcRating", b>>, <<"mpaaRating", m>>>>)} :
           m \in {<<"P","G">>, <<"R">>, <<"N","C","1","7">>, <<"u","n","r","a","t","e","d">>},
           b \in {<<"1","5">>, <<"1","8">>, <<"x","x">>}}

RatingObjects == {Rating(<<>>), NoRatingObject} \cup SingleRatings \cup DoubleRatings

FewRatings ==
    {Rating(<<>>), Rating(<<<<"mpaaRating", <<"R">>>>>>),
     Rating(<<<<"mpaaRating", <<"P","G","1","3">>>>>>)}

NoProfile ==
    [defined |-> FALSE, channelId |-> "undefined", videosWatched |-> 0,
     madeForKidsCount |-> 0, madeForKidsRatio |-> [num |-> 0, den |-> 1],
     hasAgeRestriction |-> FALSE]

\* A profile as buildChannelProfiles leaves it: the ratio is the quotient of
\* the two counts.
Profile(ch, w, k, age) ==
    [defined |-> TRUE, channelId |-> ch, videosWatched |-> w,
     madeForKidsCount |-> k, madeForKidsRatio |-> [num |-> k, den |-> w],
     hasAgeRestriction |-> age]

Profiles ==
    {NoProfile} \cup
    {Profile("UC1", w, k, age) :
        w \in 1..MaxWatched, k \in 0..MaxKidsCount, age \in BOOLEAN}

ValidProfile(p) == ~p.defined \/ p.madeForKidsCount <= p.videosWatched

FewProfiles == {NoProfile, Profile("UC1", 4, 0, TRUE), Profile("UC1", 2, 1, FALSE)}

Idle == <<>>

\* const summary = {highRisk: 0, mediumRisk: 0, lowRisk: 0}
ZeroSummary == [highRisk |-> 0, mediumRisk |-> 0, lowRisk |-> 0]

\* The five tables the two batch jobs write, each in insertion order.  The
\* generated columns (autoincrement ids, timestamps) are left out; a tag's
\* id is its position in the tags table.
EmptyDb ==
    [classifications |-> <<>>, classificationFlags |-> <<>>,
     aiAnalysis |-> <<>>, tags |-> <<>>, videoTags |-> <<>>]

\* const results = {analyzed: 0, failed: 0, skipped: ..., errors: []}
NoAiResults == [analyzed |-> 0, failed |-> 0, skipped |-> 0, errors |-> <<>>]

\* What one call of analyzeVideo comes to: "ok" with the parsed object of
\* analyzeWithAI, or the place where it threw.
Answer(k, t, r) == [kind |-> k, tags |-> t, riskLevel |-> r]

NoAnswer == Answer("none", <<>>, "LOW")

\* The state of the parts of the program that a run does not enter.
IdleStore == summary = ZeroSummary /\ db = EmptyDb /\ runs = <<>>

IdleAi ==
    /\ captions = {}
    /\ toAnalyze = <<>>
    /\ aiResults = NoAiResults
    /\ aiIndex = 0
    /\ answer = NoAnswer
    /\ oracleWaited = TRUE

IdleEnrich ==
    /\ cacheFile = {}
    /\ cache = {}
    /\ profiles = <<>>
    /\ fetched = 0
    /\ fetchLog = <<>>
    /\ entry = 0
    /\ pastFetches = <<>>
    /\ fetchWaited = TRUE

\* const results = {success: 0, failed: 0, skipped: 0, totalSize: 0,
\*                  rateLimited: 0, errors: []}
NoDownloadResults ==
    [success |-> 0, failed |-> 0, skipped |-> 0, rateLimited |-> 0,
     errors |-> <<>>]

\* The parts that the run of job g does not enter.
IdleExtra(g) ==
    /\ IF g = "analyzeVideos" THEN TRUE
       ELSE /\ watched = <<>>
            /\ videoStore = <<>>
            /\ uncachedIds = <<>>
            /\ batchStart = 0
            /\ videoRequests = <<>>
            /\ pastRequests = <<>>
    /\ IF g = "buildChannelProfiles" THEN TRUE
       ELSE watchHistory = <<>> /\ channelStats = <<>>
    /\ IF g = "analyzeWithAI" THEN TRUE
       ELSE transcript = <<>> /\ truncated = <<>>
    /\ IF g = "downloadAllVideos" THEN TRUE
       ELSE /\ videoIds = <<>>
            /\ downloaded = {}
            /\ dlIndex = 0
            /\ dlResults = NoDownloadResults
            /\ attempt = 0
            /\ urlRequests = <<>>
            /\ waits = <<>>
            /\ response = "none"

(***************************************************************************)
(* Spec: one call of classifyVideo.                                        *)
(***************************************************************************)
\* The blocklist rules at large, a few ratings and profiles.
InitBlocklistInputs ==
    /\ \E t \in Titles, d \in Descriptions, tg \in TagLists, cr \in FewRatings :
          video = Video("v1", t, d, tg, "UC1", "20", cr, "null", "null")
    /\ \E k \in KeywordLists, ch \in ChannelLists, cat \in CategoryLists :
          blocklist = Blocklist(k, ch, cat)
    /\ channelProfile \in {NoProfile, Profile("UC1", 4, 0, TRUE)}

\* The rating objects at large.
InitRatingInputs ==
    /\ \E cr \in RatingObjects, mfk \in {"null", "false"} :
          video = Video("v1", GraphicNovelReview, NullText, <<>>, "UC1", "20",
                        cr, mfk, mfk)
    /\ blocklist \in {EmptyBlocklist, Blocklist(<<>>, <<"UC1">>, <<>>)}
    /\ channelProfile \in FewProfiles

\* The made-for-kids fields and the channel profiles at large.
InitKidsInputs ==
    /\ \E cr \in FewRatings, mfk \in JsBool, sd \in JsBool :
          video = Video("v1", GraphicNovelReview, NullText, <<>>, "UC1", "20",
                        cr, mfk, sd)
    /\ blocklist \in {EmptyBlocklist, Blocklist(<<Graphic>>, <<>>, <<>>)}
    /\ channelProfile \in Profiles
    /\ ValidProfile(channelProfile)

Init ==
    /\ InitBlocklistInputs \/ InitRatingInputs \/ InitKidsInputs
    /\ result = Idle
    /\ contentRating = Rating(<<>>)
    /\ parsedRatings = <<>>
    /\ mostRestrictive = NullRating
    /\ IdleStore /\ IdleAi /\ IdleEnrich /\ IdleExtra("none")
    /\ videoDetails = <<>>
    /\ channelProfiles = <<>>
    /\ results = <<>>
    /\ pc = "classify"

\* const result = classifyVideo(video, blocklist, channelLookup[video.channelId])
Classify ==
    /\ pc = "classify"
    /\ result' = classifyVideo(video, blocklist, channelProfile)
    /\ pc' = "classified"
    /\ UNCHANGED <<extraVars, storeVars, aiVars, enrichVars, video, blocklist, channelProfile, contentRating,
                   parsedRatings, mostRestrictive, videoDetails,
                   channelProfiles, results>>

Next == Classify

Spec == Init /\ [][Next]_vars

(***************************************************************************)
(* Properties of one classifyVideo call (Spec).                            *)
(***************************************************************************)
Classified == pc = "classified"

HasType(list, t) == \E i \in 1..Len(list) : list[i].type = t

AllSignals(r) == r.flags \o r.warnings \o r.info

\* The keyword occurs in the text as a substring, letter case ignored.
Occurs(k, text) ==
    text # NullText /\ includes(toLowerCase(text), toLowerCase(k))

KeywordIn(text) ==
    \E i \in 1..Len(blocklist.keywords) : Occurs(blocklist.keywords[i], text)

\* C1: the risk level of a returned result is HIGH exactly when its flags
\* list is non-empty, MEDIUM exactly when flags is empty and warnings is not,
\* LOW exactly when both are empty; each list holds only signals of its tier.
C1_RiskLevelFromSignals ==
    Classified =>
        /\ result.riskLevel = "HIGH" <=> Len(result.flags) > 0
        /\ result.riskLevel = "MEDIUM" <=>
              (Len(result.flags) = 0 /\ Len(result.warnings) > 0)
        /\ result.riskLevel = "LOW" <=>
              (Len(result.flags) = 0 /\ Len(result.warnings) = 0)
        /\ \A i \in 1..Len(result.flags) : result.flags[i].flagType = "flags"
        /\ \A i \in 1..Len(result.warnings) : result.warnings[i].flagType = "warnings"
        /\ \A i \in 1..Len(result.info) : result.info[i].flagType = "info"

\* A result whose only flag carries the MEDIUM severity label.
C1_Witness ==
    /\ Classified
    /\ Len(result.flags) = 1
    /\ result.flags[1].severity = "MEDIUM"
    /\ result.riskLevel = "HIGH"

\* C2: whenever a blocklist rule matches the video (a keyword occurring in
\* the title, the description or the space-joined tags, the channel id in
\* blocklist.channels, the category id in blocklist.categories) the result
\* has a flag and is HIGH; a title match gives a BLOCKLIST_TITLE flag whose
\* message names the keyword; the description and tag signals are flags
\* labelled MEDIUM, never warnings.
C2_BlocklistMatchIsFlag ==
    Classified =>
        /\ ( \/ KeywordIn(video.title)
             \/ KeywordIn(video.description)
             \/ KeywordIn(join(video.tags, <<" ">>))
             \/ arrayIncludes(blocklist.channels, video.channelId)
             \/ arrayIncludes(blocklist.categories, video.categoryId) )
           => (Len(result.flags) > 0 /\ result.riskLevel = "HIGH")
        /\ \A i \in 1..Len(blocklist.keywords) :
              Occurs(blocklist.keywords[i], video.title) =>
                 \E j \in 1..Len(result.flags) :
                    /\ result.flags[j].type = "BLOCKLIST_TITLE"
                    /\ includes(result.flags[j].message.arg, blocklist.keywords[i])
        /\ arrayIncludes(blocklist.channels, video.channelId)
              => HasType(result.flags, "BLOCKLIST_CHANNEL")
        /\ arrayIncludes(blocklist.categories, video.categoryId)
              => HasType(result.flags, "BLOCKLIST_CATEGORY")
        /\ \A t \in {"BLOCKLIST_DESCRIPTION", "BLOCKLIST_TAGS"} :
              /\ ~HasType(result.warnings, t)
              /\ ~HasType(result.info, t)
              /\ \A j \in 1..Len(result.flags) :
                    result.flags[j].type = t => result.flags[j].severity = "MEDIUM"

\* A keyword found only in the description, in other letter case: the one
\* flag is BLOCKLIST_DESCRIPTION.
C2_Witness ==
    /\ Classified
    /\ ~KeywordIn(video.title)
    /\ KeywordIn(video.description)
    /\ Len(result.flags) = 1
    /\ result.flags[1].type = "BLOCKLIST_DESCRIPTION"
    /\ result.riskLevel = "HIGH"

IsRatingSignal(s) ==
    s.type \in {"AGE_RATING_MATURE", "AGE_RATING_TEEN", "AGE_RATING_GUIDANCE"}

\* The signals of a list that report the parsed rating r.
SignalsFor(list, r) ==
    {i \in 1..Len(list) : IsRatingSignal(list[i]) /\ list[i].message = formatRating(r)}

\* C3: every recognized rating of the video gives exactly one signal, a flag
\* for ADULT or MATURE, a warning for TEEN, an info signal otherwise.
C3_OneSignalPerRating ==
    Classified =>
        LET ratings == parseContentRating(video.contentRating)
        IN  \A i \in 1..Len(ratings) :
               LET r == ratings[i]
                   f == Cardinality(SignalsFor(result.flags, r))
                   w == Cardinality(SignalsFor(result.warnings, r))
                   n == Cardinality(SignalsFor(result.info, r))
               IN  /\ f + w + n = 1
                   /\ r.severity \in {"ADULT", "MATURE"} => f = 1
                   /\ r.severity = "TEEN" => w = 1
                   /\ r.severity = "GUIDANCE" => n = 1

\* C4: a video with a rating of UNKNOWN severity has a warning, so it is
\* MEDIUM or HIGH.
C4_UnknownIsWarning ==
    Classified =>
        LET ratings == parseContentRating(video.contentRating)
        IN  (\E i \in 1..Len(ratings) : ratings[i].severity = "UNKNOWN")
               => (Len(result.warnings) > 0 /\ result.riskLevel \in {"MEDIUM", "HIGH"})

\* C5: contentRating {mpaa: "PG-13"}, no blocklist hit, no made-for-kids
\* field, no channel profile: exactly one signal, a TEEN warning, and MEDIUM.
C5_Pg13IsMedium ==
    ( /\ Classified
      /\ video.contentRating = Rating(<<<<"mpaa", <<"P","G","-","1","3">>>>>>)
      /\ blocklist = EmptyBlocklist
      /\ video.madeForKids = "null" /\ video.selfDeclaredMadeForKids = "null"
      /\ ~channelProfile.defined )
    => /\ Len(result.warnings) = 1
       /\ result.warnings[1].type = "AGE_RATING_TEEN"
       /\ Len(result.flags) = 0 /\ Len(result.info) = 0
       /\ result.riskLevel = "MEDIUM"

Present(b) == b \in {"true", "false"}

\* C6: MADE_FOR_KIDS_MISMATCH is emitted exactly when madeForKids and
\* selfDeclaredMadeForKids are both present (neither null nor undefined) and
\* differ; its message tells the direction.
C6_MismatchIffBothPresent ==
    Classified =>
        /\ HasType(result.info, "MADE_FOR_KIDS_MISMATCH") <=>
              ( /\ Present(video.madeForKids)
                /\ Present(video.selfDeclaredMadeForKids)
                /\ video.madeForKids # video.selfDeclaredMadeForKids )
        /\ \A i \in 1..Len(result.info) :
              result.info[i].type = "MADE_FOR_KIDS_MISMATCH" =>
                 result.info[i].message.text =
                    (IF video.selfDeclaredMadeForKids = "false"
                     THEN "Creator declared NOT for kids, but YouTube determined it IS for kids"
                     ELSE "Creator declared for kids, but YouTube determined it is NOT for kids")

\* C7: CHANNEL_NOT_KID_FOCUSED is emitted exactly when a profile is supplied
\* whose madeForKidsRatio is below 0.1 and whose videosWatched exceeds 3
\* (10 videos and no kids video: yes; 2 or 3 videos: no); it is an info
\* signal and the risk level is what it is without it.
C7_KidFocusRule ==
    Classified =>
        LET p == channelProfile
            has == HasType(result.info, "CHANNEL_NOT_KID_FOCUSED")
        IN  /\ has <=> ( /\ p.defined
                         /\ 10 * p.madeForKidsCount < p.videosWatched
                         /\ p.videosWatched > 3 )
            /\ (p.defined /\ p.videosWatched = 10 /\ p.madeForKidsCount = 0) => has
            /\ (p.defined /\ p.videosWatched \in {2, 3}) => ~has
            /\ ~HasType(result.flags, "CHANNEL_NOT_KID_FOCUSED")
            /\ ~HasType(result.warnings, "CHANNEL_NOT_KID_FOCUSED")
            /\ result.riskLevel =
                  classifyVideo(video, blocklist,
                                [p EXCEPT !.videosWatched = 1]).riskLevel

\* Ten videos watched, none for kids: the signal is there and the video LOW.
C7_Witness ==
    /\ Classified
    /\ channelProfile.defined
    /\ channelProfile.videosWatched = 10
    /\ channelProfile.madeForKidsCount = 0
    /\ HasType(result.info, "CHANNEL_NOT_KID_FOCUSED")
    /\ result.riskLevel = "LOW"

(***************************************************************************)
(* SpecRating: parseContentRating and getMostRestrictiveRating on their    *)
(* own.                                                                    *)
(***************************************************************************)
Parsed(scheme, code, table) ==
    [scheme |-> scheme, value |-> toUpperCase(code), age |-> table[code].age,
     severity |-> table[code].severity, description |-> table[code].description]

\* Every rating object the parser can produce, and one more entry without an
\* age, so that a list can hold two different entries whose age is null.
ParsedRatingValues ==
    {Parsed("MPAA", c, RATING_SCHEMES.mpaa) : c \in DOMAIN RATING_SCHEMES.mpaa}
    \cup {Parsed("BBFC", c, RATING_SCHEMES.bbfc) : c \in DOMAIN RATING_SCHEMES.bbfc}
    \cup {[scheme |-> "BBFC", value |-> <<"T","B","C">>, age |-> NullAge,
           severity |-> "UNKNOWN", description |-> "To be classified"]}

RatingLists ==
    UNION {[1..n -> ParsedRatingValues] : n \in 0..MaxRatings}

\* Three-property objects: an unknown scheme before, between or after the
\* two known ones.
TripleRatings ==
    LET yt == <<"ytRating", <<"y","t">>>>
        m == <<"mpaaRating", <<"n","c","1","7">>>>
        b == <<"bbfcRating", <<"1","8">>>>
    IN  {Rating(<<yt, m, b>>), Rating(<<b, yt, m>>), Rating(<<b, m, yt>>)}

InitRating ==
    /\ \/ /\ pc = "parse"
          /\ contentRating \in RatingObjects \cup TripleRatings
          /\ parsedRatings = <<>>
       \/ /\ pc = "select"
          /\ contentRating = Rating(<<>>)
          /\ parsedRatings \in RatingLists
    /\ mostRestrictive = NullRating
    /\ IdleStore /\ IdleAi /\ IdleEnrich /\ IdleExtra("none")
    /\ video = Video("none", <<>>, NullText, <<>>, "", "", Rating(<<>>), "null", "null")
    /\ blocklist = EmptyBlocklist
    /\ channelProfile = NoProfile
    /\ result = Idle
    /\ videoDetails = <<>>
    /\ channelProfiles = <<>>
    /\ results = <<>>

\* const parsedRatings = parseContentRating(video.contentRating)
ParseContentRating ==
    /\ pc = "parse"
    /\ parsedRatings' = parseContentRating(contentRating)
    /\ pc' = "select"
    /\ UNCHANGED <<extraVars, storeVars, aiVars, enrichVars, video, blocklist, channelProfile, result, contentRating,
                   mostRestrictive, videoDetails, channelProfiles, results>>

\* const mostRestrictive = getMostRestrictiveRating(parsedRatings)
GetMostRestrictiveRating ==
    /\ pc = "select"
    /\ mostRestrictive' = getMostRestrictiveRating(parsedRatings)
    /\ pc' = "selected"
    /\ UNCHANGED <<extraVars, storeVars, aiVars, enrichVars, video, blocklist, channelProfile, result, contentRating,
                   parsedRatings, videoDetails, channelProfiles, results>>

NextRating == ParseContentRating \/ GetMostRestrictiveRating

SpecRating == InitRating /\ [][NextRating]_vars

Ages(list) == {list[i].age : i \in 1..Len(list)}

\* C9: of a non-empty list getMostRestrictiveRating returns an entry of the
\* highest age that is not null; the first entry if every age is null; null
\* for the empty list.
C9_MostRestrictive ==
    pc = "selected" =>
        /\ parsedRatings = <<>> => mostRestrictive = NullRating
        /\ (parsedRatings # <<>> /\ Ages(parsedRatings) = {NullAge})
              => mostRestrictive = parsedRatings[1]
        /\ (parsedRatings # <<>> /\ Ages(parsedRatings) # {NullAge}) =>
              /\ \E i \in 1..Len(parsedRatings) : mostRestrictive = parsedRatings[i]
              /\ mostRestrictive.age # NullAge
              /\ \A a \in Ages(parsedRatings) \ {NullAge} : a <= mostRestrictive.age

\* The oldest rating stands last, behind an entry without an age.
C9_Witness ==
    /\ pc = "selected"
    /\ Len(parsedRatings) = 3
    /\ parsedRatings[1].age = NullAge
    /\ parsedRatings[2].age = 13
    /\ parsedRatings[3].age = 17
    /\ mostRestrictive = parsedRatings[3]

\* Two different entries without an age: the first is returned.
C9_WitnessNullAges ==
    /\ pc = "selected"
    /\ Len(parsedRatings) = 2
    /\ Ages(parsedRatings) = {NullAge}
    /\ parsedRatings[1] # parsedRatings[2]
    /\ mostRestrictive = parsedRatings[1]

\* Every ordering of the entries of a content-rating object.
Orderings(cr) ==
    LET n == Len(cr.entries)
    IN  {[isObject |-> cr.isObject, entries |-> [i \in 1..n |-> cr.entries[f[i]]]] :
            f \in {g \in [1..n -> 1..n] : \A i, j \in 1..n : g[i] = g[j] => i = j}}

\* C10: the most restrictive rating selected for a content-rating object is
\* the same for every ordering of the object's entries.
C10_OrderIndependent ==
    (pc = "selected" /\ parsedRatings = parseContentRating(contentRating)) =>
        \A cr \in Orderings(contentRating) :
            getMostRestrictiveRating(parseContentRating(cr)) = mostRestrictive

\* Two schemes of the same age, the BBFC entry written first: the MPAA entry
\* is selected all the same.
C10_Witness ==
    /\ pc = "selected"
    /\ Len(contentRating.entries) >= 2
    /\ contentRating.entries[1][1] = "bbfcRating"
    /\ Len(parsedRatings) = 2
    /\ parsedRatings[1].age = parsedRatings[2].age
    /\ mostRestrictive.scheme = "MPAA"

(***************************************************************************)
(* channel-analyzer.js: the profile fields the classifier reads.           *)
(***************************************************************************)
\* profiles[channelId] of buildChannelProfiles' first loop: the index of the
\* channel's profile in the object's key order, 0 if there is none.
ProfileIndex(profs, ch) ==
    IF \E i \in 1..Len(profs) : profs[i].channelId = ch
    THEN CHOOSE i \in 1..Len(profs) : profs[i].channelId = ch
    ELSE 0

\* The mutant of AddVideo: every video opens a profile of its own.
AddVideoAlwaysNew(profs, v) ==
    Append(profs,
           Profile(v.channelId, 1, IF v.madeForKids = "true" THEN 1 ELSE 0,
                   v.contentRating.isObject /\ Len(v.contentRating.entries) > 0))

\* One pass of "for (const [videoId, video] of Object.entries(videoDetails))".
AddVideo(profs, v) ==
    LET withProfile ==
            IF ProfileIndex(profs, v.channelId) = 0
            THEN Append(profs, Profile(v.channelId, 0, 0, FALSE))
            ELSE profs
        i == ProfileIndex(withProfile, v.channelId)
        old == withProfile[i]
    IN  [withProfile EXCEPT ![i] =
            [old EXCEPT
                !.videosWatched = old.videosWatched + 1,
                !.madeForKidsCount =
                    IF v.madeForKids = "true" THEN old.madeForKidsCount + 1
                    ELSE old.madeForKidsCount,
                !.hasAgeRestriction =
                    \/ old.hasAgeRestriction
                    \/ (v.contentRating.isObject /\ Len(v.contentRating.entries) > 0)]]

RECURSIVE AddVideos(_, _)
AddVideos(profs, vids) ==
    IF vids = <<>> THEN profs
    ELSE AddVideos(AddVideo(profs, vids[1]), Tail(vids))

\* The profiles object, in key order, after "Calculate stats".
buildChannelProfiles(vids) ==
    LET profs == AddVideos(<<>>, vids)
    IN  [i \in 1..Len(profs) |->
            [profs[i] EXCEPT !.madeForKidsRatio =
                [num |-> profs[i].madeForKidsCount, den |-> profs[i].videosWatched]]]

\* Array.prototype.sort((a, b) => b.videosWatched - a.videosWatched): stable.
RECURSIVE sortByVideosWatched(_)
sortByVideosWatched(profs) ==
    IF profs = <<>> THEN <<>>
    ELSE LET top == CHOOSE i \in 1..Len(profs) :
                       /\ \A j \in 1..Len(profs) :
                             profs[j].videosWatched <= profs[i].videosWatched
                       /\ \A j \in 1..(i - 1) :
                             profs[j].videosWatched < profs[i].videosWatched
             rest == [j \in 1..(Len(profs) - 1) |->
                         IF j < top THEN profs[j] ELSE profs[j + 1]]
         IN  <<profs[top]>> \o sortByVideosWatched(rest)

\* channelLookup[video.channelId] over Object.fromEntries(channelProfiles.map(...))
channelLookup(profs, ch) ==
    IF \E i \in 1..Len(profs) : profs[i].channelId = ch
    THEN profs[CHOOSE i \in 1..Len(profs) :
                  /\ profs[i].channelId = ch
                  /\ \A j \in (i + 1)..Len(profs) : profs[j].channelId # ch]
    ELSE NoProfile

(***************************************************************************)
(* SpecBatch: analyzeChannels, then classifyAllVideos, over a corpus.      *)
(***************************************************************************)
BatchRatings ==
    {Rating(<<>>), NoRatingObject,
     Rating(<<<<"ytRating", <<"y","t","A","g","e","R","e","s","t","r","i","c","t","e","d">>>>>>),
     Rating(<<<<"mpaaRating", <<"P","G","-","1","3">>>>>>),
     Rating(<<<<"mpaaRating", <<"R">>>>>>)}

VideoId(i) == IF i = 1 THEN "v1" ELSE IF i = 2 THEN "v2" ELSE IF i = 3 THEN "v3" ELSE "v4"

BatchVideo(i, ch, cr, mfk) ==
    Video(VideoId(i), GraphicNovelReview, NullText, <<>>, ch, "20", cr, mfk, mfk)

\* A video record without a channel id.  As a property key the missing id
\* is coerced to one fixed string, so all such records share one key.
NullChannel == "<null>"

\* What varies from one video of the corpus to the next.
VideoChoices == {"UC1", "UC2", NullChannel} \X BatchRatings \X {"true", "false"}

\* The mutant of countRisk: every result counts as low risk.
countRiskAsLow(sum, level) == [sum EXCEPT !.lowRisk = @ + 1]

\* summary[riskLevel === 'HIGH' ? 'highRisk' : riskLevel === 'MEDIUM'
\*         ? 'mediumRisk' : 'lowRisk']++
countRisk(sum, level) ==
    IF level = "HIGH" THEN [sum EXCEPT !.highRisk = @ + 1]
    ELSE IF level = "MEDIUM" THEN [sum EXCEPT !.mediumRisk = @ + 1]
    ELSE [sum EXCEPT !.lowRisk = @ + 1]

\* summary: {total: results.length, ...summary}
returnedSummary(res, sum) ==
    [total |-> Len(res), highRisk |-> sum.highRisk,
     mediumRisk |-> sum.mediumRisk, lowRisk |-> sum.lowRisk]

\* The row of db.insert(classifications).values({...}).
classificationRow(r) ==
    [videoId |-> r.videoId, riskLevel |-> r.riskLevel,
     flagCount |-> Len(r.flags), warningCount |-> Len(r.warnings),
     infoCount |-> Len(r.info)]

\* allFlags: [...flags, ...warnings, ...info], each with the video id.
flagRows(r) ==
    LET all == r.flags \o r.warnings \o r.info
    IN  [i \in 1..Len(all) |-> [videoId |-> r.videoId, signal |-> all[i]]]

\* The mutant of deleteClassifications: the rows of earlier runs stay.
keepClassifications(d) == d

\* await db.delete(classifications); await db.delete(classificationFlags)
deleteClassifications(d) ==
    [d EXCEPT !.classifications = <<>>, !.classificationFlags = <<>>]

\* The two inserts of one pass of the loop.
insertClassification(d, r) ==
    [d EXCEPT !.classifications = Append(@, classificationRow(r)),
              !.classificationFlags = @ \o flagRows(r)]

InitBatch ==
    /\ \E n \in 1..MaxVideos :
          \E c \in [1..n -> VideoChoices] :
             videoDetails = [i \in 1..n |-> BatchVideo(i, c[i][1], c[i][2], c[i][3])]
    /\ blocklist \in {EmptyBlocklist, Blocklist(<<>>, <<"UC2">>, <<>>)}
    /\ channelProfiles = <<>>
    /\ results = <<>>
    /\ pc = "analyzeChannels"
    /\ video = Video("none", <<>>, NullText, <<>>, "", "", Rating(<<>>), "null", "null")
    /\ channelProfile = NoProfile
    /\ result = Idle
    /\ contentRating = Rating(<<>>)
    /\ parsedRatings = <<>>
    /\ mostRestrictive = NullRating
    /\ IdleStore /\ IdleAi /\ IdleEnrich /\ IdleExtra("none")

\* analyzeChannels: build the profiles and return them sorted.
AnalyzeChannels ==
    /\ pc = "analyzeChannels"
    /\ channelProfiles' = sortByVideosWatched(buildChannelProfiles(videoDetails))
    /\ pc' = "classifyAllVideos"
    /\ UNCHANGED <<extraVars, storeVars, aiVars, enrichVars, video, blocklist,
                   channelProfile, result, contentRating,
                   parsedRatings, mostRestrictive, videoDetails, results>>

\* classifyAllVideos up to its loop: the stored rows are cleared, the
\* counters and the results list start empty.
ClassifyAllStart ==
    /\ pc = "classifyAllVideos"
    /\ db' = deleteClassifications(db)
    /\ summary' = ZeroSummary
    /\ results' = <<>>
    /\ pc' = "classifyAll"
    /\ UNCHANGED <<extraVars, runs, aiVars, enrichVars, video, blocklist, channelProfile,
                   result, contentRating, parsedRatings, mostRestrictive,
                   videoDetails, channelProfiles>>

\* One pass of "for (const video of allVideos)" in classifyAllVideos.
ClassifyNextVideo ==
    /\ pc = "classifyAll"
    /\ Len(results) < Len(videoDetails)
    /\ LET v == videoDetails[Len(results) + 1]
           r == classifyVideo(v, blocklist, channelLookup(channelProfiles, v.channelId))
       IN  /\ results' = Append(results, r)
           /\ summary' = countRisk(summary, r.riskLevel)
           /\ db' = insertClassification(db, r)
    /\ UNCHANGED <<extraVars, runs, aiVars, enrichVars, video, blocklist, channelProfile,
                   result, contentRating, parsedRatings, mostRestrictive,
                   videoDetails, channelProfiles, pc>>

\* classifyAllVideos returns {results, summary, blocklist}.
ClassifyAllReturn ==
    /\ pc = "classifyAll"
    /\ Len(results) = Len(videoDetails)
    /\ summary' = returnedSummary(results, summary)
    /\ pc' = "done"
    /\ UNCHANGED <<extraVars, db, runs, aiVars, enrichVars, video, blocklist,
                   channelProfile, result, contentRating, parsedRatings,
                   mostRestrictive, videoDetails, channelProfiles, results>>

NextBatch ==
    AnalyzeChannels \/ ClassifyAllStart \/ ClassifyNextVideo \/ ClassifyAllReturn

SpecBatch == InitBatch /\ [][NextBatch]_vars

\* The results list of a whole run over a corpus.
BatchResults(vids, bl) ==
    LET profs == sortByVideosWatched(buildChannelProfiles(vids))
    IN  [i \in 1..Len(vids) |->
            classifyVideo(vids[i], bl, channelLookup(profs, vids[i].channelId))]

\* The object has an entry that the static tables know.
Recognized(cr) ==
    /\ cr.isObject
    /\ \E i \in 1..Len(cr.entries) :
          \/ /\ cr.entries[i][1] = "mpaaRating"
             /\ toLowerCase(cr.entries[i][2]) \in DOMAIN RATING_SCHEMES.mpaa
          \/ /\ cr.entries[i][1] = "bbfcRating"
             /\ toLowerCase(cr.entries[i][2]) \in DOMAIN RATING_SCHEMES.bbfc

\* The corpus with every content rating that holds no recognized entry
\* replaced by the empty object.
Stripped(vids) ==
    [i \in 1..Len(vids) |->
        IF Recognized(vids[i].contentRating) THEN vids[i]
        ELSE [vids[i] EXCEPT !.contentRating = Rating(<<>>)]]

\* C8: a rating entry that the tables do not know yields no parsed rating
\* and shows in no video's classification (the results are those of the
\* corpus without these entries); a video without a rating has no
\* AGE_RATING signal.
C8_UnrecognizedDropped ==
    pc = "done" =>
        /\ \A i \in 1..Len(videoDetails) :
              ~Recognized(videoDetails[i].contentRating) =>
                 /\ parseContentRating(videoDetails[i].contentRating) = <<>>
                 /\ \A j \in 1..Len(AllSignals(results[i])) :
                       ~IsRatingSignal(AllSignals(results[i])[j])
        /\ results = BatchResults(Stripped(videoDetails), blocklist)

(***************************************************************************)
(* classifyAllVideos: the results list and the counters.                   *)
(***************************************************************************)
CountLevel(res, level) ==
    Cardinality({i \in 1..Len(res) : res[i].riskLevel = level})

\* C11: a finished run has one result per input video, in a list as long as
\* the corpus; summary.total is the number of videos, each of the three
\* counters is the number of results of its risk level, and the three
\* counters add up to the total.
C11_EveryVideoOnce ==
    pc = "done" =>
        /\ Len(results) = Len(videoDetails)
        /\ \A i \in 1..Len(videoDetails) :
              Cardinality({j \in 1..Len(results) :
                              results[j].videoId = videoDetails[i].id}) = 1
        /\ summary.total = Len(videoDetails)
        /\ summary.highRisk = CountLevel(results, "HIGH")
        /\ summary.mediumRisk = CountLevel(results, "MEDIUM")
        /\ summary.lowRisk = CountLevel(results, "LOW")
        /\ summary.highRisk + summary.mediumRisk + summary.lowRisk = summary.total

\* A finished run over two videos of different risk levels, neither LOW.
C11_Witness ==
    /\ pc = "done"
    /\ Len(videoDetails) = 2
    /\ summary.highRisk = 1
    /\ summary.mediumRisk = 1

Severity(level) ==
    IF level = "HIGH" THEN 2 ELSE IF level = "MEDIUM" THEN 1 ELSE 0

InputPosition(id) ==
    CHOOSE i \in 1..Len(videoDetails) : videoDetails[i].id = id

\* C12: in the returned results list a result of a more severe risk level
\* comes before a less severe one, among equal levels the one with more
\* flags comes first, and exact ties keep the order of the input.
C12_SevereFirst ==
    pc = "done" =>
        \A i, j \in 1..Len(results) :
            i < j =>
                \/ Severity(results[i].riskLevel) > Severity(results[j].riskLevel)
                \/ /\ results[i].riskLevel = results[j].riskLevel
                   /\ Len(results[i].flags) > Len(results[j].flags)
                \/ /\ results[i].riskLevel = results[j].riskLevel
                   /\ Len(results[i].flags) = Len(results[j].flags)
                   /\ InputPosition(results[i].videoId)
                         < InputPosition(results[j].videoId)

\* No blocklist rule and no rating rule has matched for the result.
OnlyChannelSignals(r) ==
    /\ r.flags = <<>>
    /\ \A i \in 1..Len(r.warnings) :
          r.warnings[i].type = "CHANNEL_HAS_RESTRICTED_CONTENT"

\* C15: the result of a video without a channel id carries neither
\* CHANNEL_HAS_RESTRICTED_CONTENT nor CHANNEL_NOT_KID_FOCUSED, whatever else
\* the corpus holds, and is LOW when no other rule has matched.
C15_NoChannelNoChannelSignal ==
    pc = "done" =>
        \A i \in 1..Len(videoDetails) :
            videoDetails[i].channelId = NullChannel =>
                /\ ~HasType(results[i].warnings, "CHANNEL_HAS_RESTRICTED_CONTENT")
                /\ ~HasType(results[i].info, "CHANNEL_NOT_KID_FOCUSED")
                /\ OnlyChannelSignals(results[i]) => results[i].riskLevel = "LOW"

RECURSIVE SumWatched(_)
SumWatched(profs) ==
    IF profs = <<>> THEN 0
    ELSE profs[1].videosWatched + SumWatched(Tail(profs))

ChannelIds(vids) == {vids[i].channelId : i \in 1..Len(vids)}

\* C16: every profile built from the corpus has videosWatched >= 1 and
\* 0 <= madeForKidsCount <= videosWatched; its madeForKidsRatio is the
\* quotient of the two, so it lies in [0,1] and is 0 when the count is 0;
\* there is exactly one profile per distinct channel id of the corpus and
\* the videosWatched values add up to the number of videos.
C16_ProfileCounts ==
    pc # "analyzeChannels" =>
        /\ \A i \in 1..Len(channelProfiles) :
              LET p == channelProfiles[i]
              IN  /\ p.videosWatched >= 1
                  /\ 0 <= p.madeForKidsCount
                  /\ p.madeForKidsCount <= p.videosWatched
                  /\ p.madeForKidsRatio.num = p.madeForKidsCount
                  /\ p.madeForKidsRatio.den = p.videosWatched
                  /\ 0 <= p.madeForKidsRatio.num
                  /\ p.madeForKidsRatio.num <= p.madeForKidsRatio.den
                  /\ p.madeForKidsCount = 0 => p.madeForKidsRatio.num = 0
                  /\ p.channelId \in ChannelIds(videoDetails)
        /\ \A ch \in ChannelIds(videoDetails) :
              Cardinality({i \in 1..Len(channelProfiles) :
                              channelProfiles[i].channelId = ch}) = 1
        /\ SumWatched(channelProfiles) = Len(videoDetails)

\* Two videos of one channel, one of them made for kids.
C16_Witness ==
    /\ pc = "classifyAllVideos"
    /\ Len(videoDetails) = 2
    /\ Len(channelProfiles) = 1
    /\ channelProfiles[1].videosWatched = 2
    /\ channelProfiles[1].madeForKidsCount = 1

(***************************************************************************)
(* ai-analyzer.js: storeTags, analyzeVideo, analyzeAllVideos.              *)
(***************************************************************************)
\* [...new Set(list)]: the first occurrence of each element, in order.
RECURSIVE distinct(_)
distinct(list) ==
    IF list = <<>> THEN <<>>
    ELSE LET front == distinct(SubSeq(list, 1, Len(list) - 1))
             last == list[Len(list)]
         IN  IF arrayIncludes(front, last) THEN front ELSE Append(front, last)

\* videos.tags of the row with this id: video?.tags || []
nativeTags(vids, id) ==
    IF \E i \in 1..Len(vids) : vids[i].id = id
    THEN vids[CHOOSE i \in 1..Len(vids) : vids[i].id = id].tags
    ELSE <<>>

\* The mutant of uniqueTags: the names are compared as they are written.
uniqueTagsAsWritten(youtubeTags, aiTagNames) == distinct(youtubeTags \o aiTagNames)

\* const uniqueTags = [...new Set(allTagNames.map(t => t.toLowerCase()))]
uniqueTags(youtubeTags, aiTagNames) ==
    LET allTagNames == youtubeTags \o aiTagNames
    IN  distinct([i \in 1..Len(allTagNames) |-> toLowerCase(allTagNames[i])])

\* The first loop of storeTags: a name the tags table lacks gets a row.
RECURSIVE getOrCreateTags(_, _)
getOrCreateTags(tagRows, names) ==
    IF names = <<>> THEN tagRows
    ELSE getOrCreateTags(
            IF arrayIncludes(tagRows, names[1]) THEN tagRows
            ELSE Append(tagRows, names[1]),
            Tail(names))

\* existingTags[0].id, or newTag.id
tagIdOf(tagRows, name) ==
    CHOOSE i \in 1..Len(tagRows) :
        /\ tagRows[i] = name
        /\ \A j \in 1..(i - 1) : tagRows[j] # name

\* storeTags(videoId, aiTagNames) on the database.
storeTags(d, vids, videoId, aiTagNames) ==
    LET names == uniqueTags(nativeTags(vids, videoId), aiTagNames)
        tagRows == getOrCreateTags(d.tags, names)
    IN  [d EXCEPT
            !.tags = tagRows,
            !.videoTags = @ \o [i \in 1..Len(names) |->
                                   [videoId |-> videoId,
                                    tagId |-> tagIdOf(tagRows, names[i])]]]

\* The mutant of insertAiAnalysis: the verdict also replaces the risk level
\* of the video's classification row.
insertAiAnalysisOverRule(d, videoId, a) ==
    [d EXCEPT
        !.aiAnalysis = Append(@, [videoId |-> videoId, riskLevel |-> a.riskLevel]),
        !.classifications =
            [i \in 1..Len(@) |->
                IF @[i].videoId = videoId
                THEN [@[i] EXCEPT !.riskLevel = a.riskLevel] ELSE @[i]]]

\* await db.insert(aiAnalysis).values({videoId, riskLevel, ...})
insertAiAnalysis(d, videoId, a) ==
    [d EXCEPT !.aiAnalysis =
        Append(@, [videoId |-> videoId, riskLevel |-> a.riskLevel])]

\* analyzeVideo(videoId) on the database, for an answer of the oracle: the
\* calls that throw leave before the first write.
analyzeVideo(d, vids, videoId, a) ==
    IF a.kind = "ok"
    THEN insertAiAnalysis(storeTags(d, vids, videoId, a.tags), videoId, a)
    ELSE d

\* The mutant of recordFailure: the failure leaves no trace.
forgetFailure(res, videoId, a) == res

\* catch (error): results.failed++; results.errors.push({videoId, error})
recordFailure(res, videoId, a) ==
    [res EXCEPT !.failed = @ + 1,
                !.errors = Append(@, [videoId |-> videoId, error |-> a.kind])]

\* The mutant of pendingVideos: the analyzed videos are not left out.
captionedVideos(d, vids, caps) ==
    LET keep(v) == v.id \in caps
        kept == SelectSeq(vids, keep)
    IN  [i \in 1..Len(kept) |-> kept[i].id]

\* allVideos.filter(v => areCaptionsDownloaded(v.id) && !analyzedIds.includes(v.id))
pendingVideos(d, vids, caps) ==
    LET keep(v) ==
            /\ v.id \in caps
            /\ \A i \in 1..Len(d.aiAnalysis) : d.aiAnalysis[i].videoId # v.id
        kept == SelectSeq(vids, keep)
    IN  [i \in 1..Len(kept) |-> kept[i].id]

\* limit ? toAnalyze.slice(0, limit) : toAnalyze
limited(list, limit) ==
    IF limit # 0 /\ limit < Len(list) THEN SubSeq(list, 1, limit) ELSE list

(***************************************************************************)
(* SpecStore: runs of classifyAllVideos and of analyzeAllVideos, one after *)
(* the other in any order, over one database.                              *)
(***************************************************************************)
TagGamingCap == <<"G","a","m","i","n","g">>
TagGaming == <<"g","a","m","i","n","g">>
TagCookingCap == <<"C","o","o","k","i","n","g">>

\* What analyzeVideo can come to: no transcript, the API call throws,
\* JSON.parse throws, or a parsed object.
AiAnswers ==
    {Answer("noTranscript", <<>>, "LOW"), Answer("apiError", <<>>, "LOW"),
     Answer("badJson", <<>>, "LOW"),
     Answer("ok", <<TagGaming, TagGaming, TagCookingCap>>, "HIGH")}

\* The database that earlier runs over an earlier corpus and blocklist have
\* left: rows of a video that is gone (v9) and an outdated row of v1.
EarlierDb ==
    [classifications |->
        <<[videoId |-> "v9", riskLevel |-> "MEDIUM", flagCount |-> 0,
           warningCount |-> 1, infoCount |-> 0],
          [videoId |-> "v1", riskLevel |-> "MEDIUM", flagCount |-> 0,
           warningCount |-> 1, infoCount |-> 0]>>,
     classificationFlags |->
        <<[videoId |-> "v9",
           signal |-> Signal("warnings", "CHANNEL_HAS_RESTRICTED_CONTENT", "MEDIUM",
                             Msg("Channel has age-restricted content", <<>>))],
          [videoId |-> "v1",
           signal |-> Signal("warnings", "CHANNEL_HAS_RESTRICTED_CONTENT", "MEDIUM",
                             Msg("Channel has age-restricted content", <<>>))]>>,
     aiAnalysis |-> <<[videoId |-> "v9", riskLevel |-> "LOW"]>>,
     tags |-> <<TagGaming>>,
     videoTags |-> <<[videoId |-> "v9", tagId |-> 1]>>]

StoredVideo(i, ch, tg) ==
    Video(VideoId(i), GraphicNovelReview, NullText, tg, ch, "20", Rating(<<>>),
          "false", "false")

InitStore ==
    /\ \E n \in 1..MaxStored :
          /\ \E c \in [1..n -> {"UC1", "UC2"} \X {<<>>, <<TagGamingCap>>}] :
                videoDetails = [i \in 1..n |-> StoredVideo(i, c[i][1], c[i][2])]
          /\ captions \in {{VideoId(i) : i \in 1..n}, {VideoId(i) : i \in 2..n}}
    /\ blocklist = Blocklist(<<>>, <<"UC2">>, <<>>)
    /\ channelProfiles = sortByVideosWatched(buildChannelProfiles(videoDetails))
    /\ db \in {EmptyDb, EarlierDb}
    /\ summary = ZeroSummary
    /\ runs = <<>>
    /\ results = <<>>
    /\ toAnalyze = <<>>
    /\ aiResults = NoAiResults
    /\ aiIndex = 0
    /\ answer = NoAnswer
    /\ oracleWaited = TRUE
    /\ pc = "start"
    /\ video = Video("none", <<>>, NullText, <<>>, "", "", Rating(<<>>), "null", "null")
    /\ channelProfile = NoProfile
    /\ result = Idle
    /\ contentRating = Rating(<<>>)
    /\ parsedRatings = <<>>
    /\ mostRestrictive = NullRating
    /\ IdleEnrich /\ IdleExtra("none")

\* One of the two command-line jobs is started when none is running.
NextRun ==
    /\ pc \in {"start", "done", "analyzed"}
    /\ Len(runs) < MaxRuns
    /\ \E job \in {"classifyAllVideos", "analyzeAllVideos"} :
          /\ pc' = job
          /\ runs' = Append(runs, job)
    /\ UNCHANGED <<extraVars, summary, db, aiVars, enrichVars, video, blocklist,
                   channelProfile, result, contentRating, parsedRatings,
                   mostRestrictive, videoDetails, channelProfiles, results>>

\* analyzeAllVideos(limit) up to its loop.
AnalyzeAllStart ==
    /\ pc = "analyzeAllVideos"
    /\ \E limit \in 0..MaxLimit :
          /\ toAnalyze' = limited(pendingVideos(db, videoDetails, captions), limit)
          /\ aiResults' = [NoAiResults EXCEPT
                              !.skipped = Len(videoDetails) - Len(toAnalyze')]
    /\ aiIndex' = 0
    /\ oracleWaited' = TRUE
    /\ pc' = "analyzeAll"
    /\ UNCHANGED <<extraVars, storeVars, captions, answer, enrichVars, video, blocklist,
                   channelProfile, result, contentRating, parsedRatings,
                   mostRestrictive, videoDetails, channelProfiles, results>>

\* One pass of the loop of analyzeAllVideos: analyzeVideo in a try block.
AnalyzeNextVideo ==
    /\ pc = "analyzeAll"
    /\ aiIndex < Len(toAnalyze)
    /\ \E a \in AiAnswers :
          LET id == toAnalyze[aiIndex + 1]
          IN  /\ answer' = a
              /\ db' = analyzeVideo(db, videoDetails, id, a)
              /\ aiResults' = IF a.kind = "ok"
                              THEN [aiResults EXCEPT !.analyzed = @ + 1]
                              ELSE recordFailure(aiResults, id, a)
              \* no sleep follows the call of analyzeWithAI
              /\ oracleWaited' = IF a.kind = "noTranscript" THEN oracleWaited
                                 ELSE FALSE
    /\ aiIndex' = aiIndex + 1
    /\ UNCHANGED <<extraVars, summary, runs, captions, toAnalyze, enrichVars, video,
                   blocklist, channelProfile, result, contentRating,
                   parsedRatings, mostRestrictive, videoDetails,
                   channelProfiles, results, pc>>

\* analyzeAllVideos returns results.
AnalyzeAllReturn ==
    /\ pc = "analyzeAll"
    /\ aiIndex = Len(toAnalyze)
    /\ pc' = "analyzed"
    /\ UNCHANGED <<extraVars, storeVars, aiVars, enrichVars, video, blocklist,
                   channelProfile, result, contentRating, parsedRatings,
                   mostRestrictive, videoDetails, channelProfiles, results>>

NextStore ==
    \/ NextRun
    \/ ClassifyAllStart \/ ClassifyNextVideo \/ ClassifyAllReturn
    \/ AnalyzeAllStart \/ AnalyzeNextVideo \/ AnalyzeAllReturn

SpecStore == InitStore /\ [][NextStore]_vars

(***************************************************************************)
(* The stored rows of the two batch jobs.                                  *)
(***************************************************************************)
RECURSIVE AllFlagRows(_)
AllFlagRows(res) ==
    IF res = <<>> THEN <<>> ELSE flagRows(res[1]) \o AllFlagRows(Tail(res))

RowsFor(table, id) == {i \in 1..Len(table) : table[i].videoId = id}

\* C13: when a run of classifyAllVideos has finished, classifications holds
\* one row per video of the corpus and no other row, and classification_flags
\* holds the signals of this run's results and nothing else; the rows are
\* those of a run over the same input on an empty database, whatever earlier
\* runs had left and however often the job has run.
C13_StoredRowsAreThisRun ==
    pc = "done" =>
        LET res == BatchResults(videoDetails, blocklist)
        IN  /\ \A i \in 1..Len(videoDetails) :
                  Cardinality(RowsFor(db.classifications, videoDetails[i].id)) = 1
            /\ Len(db.classifications) = Len(videoDetails)
            /\ db.classifications =
                  [i \in 1..Len(res) |-> classificationRow(res[i])]
            /\ db.classificationFlags = AllFlagRows(res)

\* The job has run twice over two videos on a database that held rows of an
\* earlier corpus.
C13_Witness ==
    /\ pc = "done"
    /\ runs = <<"classifyAllVideos", "classifyAllVideos">>
    /\ Len(videoDetails) = 2
    /\ db.aiAnalysis # <<>>
    /\ RowsFor(db.classifications, "v9") = {}
    /\ db.classificationFlags # <<>>

\* C14: a step of classifyAllVideos leaves ai_analysis, tags and video_tags
\* as they are, and a step of analyzeAllVideos (analyzeVideo included)
\* leaves classifications and classification_flags as they are, in whatever
\* order the runs follow each other.
C14_VerdictsApart ==
    [][/\ pc \in {"classifyAllVideos", "classifyAll"} =>
             /\ db'.aiAnalysis = db.aiAnalysis
             /\ db'.tags = db.tags
             /\ db'.videoTags = db.videoTags
       /\ pc \in {"analyzeAllVideos", "analyzeAll"} =>
             /\ db'.classifications = db.classifications
             /\ db'.classificationFlags = db.classificationFlags]_vars

\* A video classified LOW by the rules was then given a HIGH verdict by the
\* oracle, and both rows are stored.
C14_Witness ==
    /\ pc = "analyzed"
    /\ runs = <<"classifyAllVideos", "analyzeAllVideos">>
    /\ \E i \in 1..Len(db.classifications) :
          \E j \in 1..Len(db.aiAnalysis) :
              /\ db.classifications[i].videoId = db.aiAnalysis[j].videoId
              /\ db.classifications[i].riskLevel = "LOW"
              /\ db.aiAnalysis[j].riskLevel = "HIGH"
              /\ answer.kind = "ok"

\* The names of the tags associated with the video.
TagNames(d, id) ==
    {d.tags[d.videoTags[i].tagId] : i \in RowsFor(d.videoTags, id)}

LowerCased(list) == {toLowerCase(list[i]) : i \in 1..Len(list)}

\* C17: right after storeTags for a video its tag names are the lower-cased
\* names of its native tags and of the oracle's tags, each once; the tags
\* table never holds two names that are equal when letter case is ignored;
\* no step removes or changes a stored tag association.
C17_MergedTags ==
    /\ [](pc = "analyzeAll" /\ aiIndex > 0 /\ answer.kind = "ok" =>
             TagNames(db, toAnalyze[aiIndex]) =
                 LowerCased(nativeTags(videoDetails, toAnalyze[aiIndex]))
                     \cup LowerCased(answer.tags))
    /\ [](\A i, j \in 1..Len(db.tags) :
             toLowerCase(db.tags[i]) = toLowerCase(db.tags[j]) => i = j)
    /\ [][\A i \in 1..Len(db.videoTags) :
             /\ i <= Len(db'.videoTags)
             /\ db'.videoTags[i] = db.videoTags[i]
             /\ db'.tags[db.videoTags[i].tagId] = db.tags[db.videoTags[i].tagId]]_vars

\* Native tags ["Gaming"], oracle tags ["gaming", "gaming", "Cooking"]: the
\* video has the two names "gaming" and "cooking".
C17_Witness ==
    /\ pc = "analyzeAll"
    /\ aiIndex > 0
    /\ answer = Answer("ok", <<TagGaming, TagGaming, TagCookingCap>>, "HIGH")
    /\ nativeTags(videoDetails, toAnalyze[aiIndex]) = <<TagGamingCap>>
    /\ TagNames(db, toAnalyze[aiIndex]) = {TagGaming, toLowerCase(TagCookingCap)}
    /\ Cardinality(TagNames(db, toAnalyze[aiIndex])) = 2

\* C18: when analyzeVideo fails for a video (no transcript, the oracle call
\* throws or its output does not parse) the video gets
\* no ai_analysis row and no tag association, the failure is the newest entry
\* of results.errors and results.failed counts the entries; the loop goes on,
\* so that at the end every video attempted is either analyzed or failed and
\* analyzed + failed is their number.
C18_FailureIsPerVideo ==
    /\ pc \in {"analyzeAll", "analyzed"} =>
          /\ aiResults.failed = Len(aiResults.errors)
          /\ aiResults.analyzed + aiResults.failed = aiIndex
    /\ pc = "analyzeAll" /\ aiIndex > 0 /\ answer.kind # "ok" =>
          LET id == toAnalyze[aiIndex]
          IN  /\ RowsFor(db.aiAnalysis, id) = {}
              /\ RowsFor(db.videoTags, id) = {}
              /\ aiResults.errors # <<>>
              /\ aiResults.errors[Len(aiResults.errors)] =
                    [videoId |-> id, error |-> answer.kind]
    /\ pc = "analyzed" =>
          /\ aiResults.analyzed + aiResults.failed = Len(toAnalyze)
          /\ \A i \in 1..Len(toAnalyze) :
                \/ RowsFor(db.aiAnalysis, toAnalyze[i]) # {}
                \/ /\ RowsFor(aiResults.errors, toAnalyze[i]) # {}
                   /\ RowsFor(db.aiAnalysis, toAnalyze[i]) = {}
                   /\ RowsFor(db.videoTags, toAnalyze[i]) = {}

\* A run over two videos: the first failed, the second was analyzed.
C18_Witness ==
    /\ pc = "analyzed"
    /\ Len(toAnalyze) = 2
    /\ aiResults.failed = 1
    /\ aiResults.analyzed = 1
    /\ aiResults.errors[1].videoId = toAnalyze[1]
    /\ RowsFor(db.aiAnalysis, toAnalyze[2]) # {}

(***************************************************************************)
(* SpecEnrich: runs of enrichChannelProfiles over one cache file.          *)
(***************************************************************************)
ChannelIdOf(i) ==
    IF i = 1 THEN "UC1" ELSE IF i = 2 THEN "UC2" ELSE IF i = 3 THEN "UC3" ELSE "UC4"

\* The profiles object handed to enrichChannelProfiles: one entry per
\* channel id, none with channelInfo.
freshProfiles(n) ==
    [i \in 1..n |-> [channelId |-> ChannelIdOf(i), channelInfo |-> "none"]]

\* The mutant of cacheAfterFetch: the entry is made whatever was returned.
cacheAfterAnyFetch(c, channelId, channelInfo) == c \cup {channelId}

\* if (channelInfo) { ...; cache[channelId] = enrichedInfo; ... }
cacheAfterFetch(c, channelId, channelInfo) ==
    IF channelInfo THEN c \cup {channelId} ELSE c

\* The mutant of writeCache: the file is left as it was read.
keepCacheFile(file, c, count) == file

\* if (fetched > 0) fs.writeFileSync(cachePath, JSON.stringify(cache))
writeCache(file, c, count) == IF count > 0 THEN c ELSE file

InitEnrich ==
    /\ \E n \in 1..MaxChannels :
          /\ profiles = freshProfiles(n)
          /\ cacheFile \in SUBSET {ChannelIdOf(i) : i \in 1..n}
    /\ cache = {}
    /\ fetched = 0
    /\ fetchLog = <<>>
    /\ entry = 0
    /\ pastFetches = <<>>
    /\ fetchWaited = TRUE
    /\ pc = "enrichChannelProfiles"
    /\ video = Video("none", <<>>, NullText, <<>>, "", "", Rating(<<>>), "null", "null")
    /\ blocklist = EmptyBlocklist
    /\ channelProfile = NoProfile
    /\ result = Idle
    /\ contentRating = Rating(<<>>)
    /\ parsedRatings = <<>>
    /\ mostRestrictive = NullRating
    /\ videoDetails = <<>>
    /\ channelProfiles = <<>>
    /\ results = <<>>
    /\ IdleStore /\ IdleAi /\ IdleExtra("none")

\* enrichChannelProfiles up to its loop: the cache file is read.
EnrichStart ==
    /\ pc = "enrichChannelProfiles"
    /\ cache' = cacheFile
    /\ fetched' = 0
    /\ fetchLog' = <<>>
    /\ entry' = 0
    /\ profiles' = freshProfiles(Len(profiles))
    /\ fetchWaited' = TRUE
    /\ pc' = "enrich"
    /\ UNCHANGED <<extraVars, cacheFile, pastFetches, storeVars, aiVars, video, blocklist,
                   channelProfile, result, contentRating, parsedRatings,
                   mostRestrictive, videoDetails, channelProfiles, results>>

\* One pass of the loop: a cached channel takes its entry, any other is
\* fetched, and fetchChannelInfo returns the channel or null.
EnrichNext ==
    /\ pc = "enrich"
    /\ entry < Len(profiles)
    /\ LET id == profiles[entry + 1].channelId
       IN  IF id \in cache
           THEN /\ profiles' = [profiles EXCEPT ![entry + 1].channelInfo = "cached"]
                /\ UNCHANGED <<cache, fetched, fetchLog, fetchWaited>>
           ELSE \E channelInfo \in BOOLEAN :
                   /\ fetchLog' = Append(fetchLog,
                          [channelId |-> id, channelInfo |-> channelInfo])
                   /\ cache' = cacheAfterFetch(cache, id, channelInfo)
                   /\ profiles' = IF channelInfo
                                  THEN [profiles EXCEPT ![entry + 1].channelInfo = "fetched"]
                                  ELSE profiles
                   /\ fetched' = IF channelInfo THEN fetched + 1 ELSE fetched
                   \* the setTimeout of 1000 ms is inside "if (channelInfo)"
                   /\ fetchWaited' = channelInfo
    /\ entry' = entry + 1
    /\ UNCHANGED <<extraVars, cacheFile, pastFetches, storeVars, aiVars, video, blocklist,
                   channelProfile, result, contentRating, parsedRatings,
                   mostRestrictive, videoDetails, channelProfiles, results, pc>>

\* After the loop: the cache file is written if anything was fetched, and
\* the profiles are returned.
EnrichReturn ==
    /\ pc = "enrich"
    /\ entry = Len(profiles)
    /\ cacheFile' = writeCache(cacheFile, cache, fetched)
    /\ pastFetches' = Append(pastFetches, fetchLog)
    /\ pc' = "enriched"
    /\ UNCHANGED <<extraVars, cache, profiles, fetched, fetchLog, entry,
                   fetchWaited, storeVars, aiVars,
                   video, blocklist, channelProfile, result, contentRating,
                   parsedRatings, mostRestrictive, videoDetails,
                   channelProfiles, results>>

\* analyzeChannels is run again over the same channels.
EnrichAgain ==
    /\ pc = "enriched"
    /\ Len(pastFetches) < MaxRuns
    /\ pc' = "enrichChannelProfiles"
    /\ UNCHANGED <<extraVars, enrichVars, storeVars, aiVars, video, blocklist,
                   channelProfile, result, contentRating, parsedRatings,
                   mostRestrictive, videoDetails, channelProfiles, results>>

NextEnrich == EnrichStart \/ EnrichNext \/ EnrichReturn \/ EnrichAgain

SpecEnrich == InitEnrich /\ [][NextEnrich]_vars

Failed(log) == {log[i].channelId : i \in {j \in 1..Len(log) : ~log[j].channelInfo}}

Succeeded(log) == {log[i].channelId : i \in {j \in 1..Len(log) : log[j].channelInfo}}

Called(log) == {log[i].channelId : i \in 1..Len(log)}

InfoOf(channelId) ==
    profiles[CHOOSE i \in 1..Len(profiles) : profiles[i].channelId = channelId].channelInfo

\* C19: after fetchChannelInfo has returned null for a channel the loop goes
\* on to the remaining channels (at the return every profile was visited);
\* the channel's profile is returned without channelInfo and the cache,
\* in memory and on file, has no entry for it; the next run calls
\* fetchChannelInfo for it again.
C19_FailedFetchIsRetried ==
    /\ pc \in {"enrich", "enriched"} =>
          \A id \in Failed(fetchLog) :
              /\ InfoOf(id) = "none"
              /\ id \notin cache
              /\ id \notin cacheFile
    /\ pc = "enriched" =>
          /\ entry = Len(profiles)
          /\ \A i \in 1..Len(profiles) :
                \/ profiles[i].channelInfo # "none"
                \/ profiles[i].channelId \in Failed(fetchLog)
    /\ \A k \in 1..(Len(pastFetches) - 1) :
          Failed(pastFetches[k]) \subseteq Called(pastFetches[k + 1])

\* In the first run the fetch for UC1 failed and the one for UC2, after it,
\* succeeded; the second run fetched UC1 again.
C19_Witness ==
    /\ pc = "enriched"
    /\ Len(pastFetches) = 2
    /\ pastFetches[1] = <<[channelId |-> "UC1", channelInfo |-> FALSE],
                          [channelId |-> "UC2", channelInfo |-> TRUE]>>
    /\ Called(pastFetches[2]) = {"UC1"}

\* C20: a run calls fetchChannelInfo at most once per channel id and never
\* for an id that has an entry in the cache file it read; a channel fetched
\* successfully in a completed run is not fetched in any later run.
C20_FetchedAtMostOnce ==
    /\ \A i, j \in 1..Len(fetchLog) :
          fetchLog[i].channelId = fetchLog[j].channelId => i = j
    /\ pc = "enrich" => Called(fetchLog) \cap cacheFile = {}
    /\ \A k \in 1..Len(pastFetches) :
          /\ pc = "enrich" => Succeeded(pastFetches[k]) \cap Called(fetchLog) = {}
          /\ \A l \in (k + 1)..Len(pastFetches) :
                Succeeded(pastFetches[k]) \cap Called(pastFetches[l]) = {}

\* The first run fetched UC1 successfully; the second run, over a cache that
\* holds it, fetched only UC2.
C20_Witness ==
    /\ pc = "enriched"
    /\ Len(pastFetches) = 2
    /\ Succeeded(pastFetches[1]) = {"UC1"}
    /\ Failed(pastFetches[1]) = {"UC2"}
    /\ Called(pastFetches[2]) = {"UC2"}
    /\ profiles[1].channelInfo = "cached"

(***************************************************************************)
(* Repeated runs of analyzeAllVideos; the delays between external calls.   *)
(***************************************************************************)
Listed(list) == {list[i] : i \in 1..Len(list)}

AtMostOneVerdict ==
    \A i, j \in 1..Len(db.aiAnalysis) :
        db.aiAnalysis[i].videoId = db.aiAnalysis[j].videoId => i = j

\* A pass of the loop of analyzeAllVideos that reaches analyzeWithAI.
OracleCall ==
    /\ pc = "analyzeAll"
    /\ aiIndex' = aiIndex + 1
    /\ answer'.kind # "noTranscript"

\* C23, as stated: the oracle is never called for a video that has an
\* ai_analysis row; no video ever has two rows; a video whose analysis failed
\* has no row and is among the videos the next run of analyzeAllVideos
\* attempts.
C23_AnalyzedOnce ==
    /\ []AtMostOneVerdict
    /\ [][OracleCall => RowsFor(db.aiAnalysis, toAnalyze[aiIndex + 1]) = {}]_vars
    /\ [][pc = "analyzeAllVideos" =>
             \A i \in 1..Len(aiResults.errors) :
                 /\ RowsFor(db.aiAnalysis, aiResults.errors[i].videoId) = {}
                 /\ aiResults.errors[i].videoId \in Listed(toAnalyze')]_vars

\* C23, amended: as above, but a failed video is attempted by the next run
\* only as far as that run's limit reaches: it is always among the pending
\* videos, and if it is not attempted then the run attempts a leading part
\* of the pending videos that is as long as a limit can be.
C23_AnalyzedOnceWithinLimit ==
    /\ []AtMostOneVerdict
    /\ [][OracleCall => RowsFor(db.aiAnalysis, toAnalyze[aiIndex + 1]) = {}]_vars
    /\ [][pc = "analyzeAllVideos" =>
             LET pending == pendingVideos(db, videoDetails, captions)
             IN  \A i \in 1..Len(aiResults.errors) :
                     LET id == aiResults.errors[i].videoId
                     IN  /\ RowsFor(db.aiAnalysis, id) = {}
                         /\ id \in Listed(pending)
                         /\ \/ id \in Listed(toAnalyze')
                            \/ /\ Len(toAnalyze') \in 1..MaxLimit
                               /\ Len(toAnalyze') < Len(pending)
                               /\ toAnalyze' = SubSeq(pending, 1, Len(toAnalyze'))]_vars

\* Two runs of analyzeAllVideos: v1 failed in the first, which analyzed v2,
\* and the second attempted v1 alone and analyzed it.
C23_Witness ==
    /\ pc = "analyzed"
    /\ runs = <<"analyzeAllVideos", "analyzeAllVideos">>
    /\ toAnalyze = <<"v1">>
    /\ aiResults.analyzed = 1
    /\ \E i, j \in 1..Len(db.aiAnalysis) :
          /\ i < j
          /\ db.aiAnalysis[i].videoId = "v2"
          /\ db.aiAnalysis[j].videoId = "v1"

\* C25: between two successive external calls of one kind the fixed delay
\* passes: a call of fetchChannelInfo in enrichChannelProfiles, and a call
\* of the oracle in analyzeAllVideos, is the first of its run or comes
\* after a delay that followed the call before it, also when that call
\* failed.
C25_DelayBetweenCalls ==
    [][/\ Len(fetchLog') > Len(fetchLog) => fetchWaited
       /\ OracleCall => oracleWaited]_vars

(***************************************************************************)
(* Interrupted runs: the process stops between two statements of a job.   *)
(* What was written to the database or to the cache file stays; what the  *)
(* job held in memory is gone.                                            *)
(***************************************************************************)
\* classifyAllVideos or analyzeAllVideos is stopped inside or before its
\* loop; every statement that ran has written its rows already.
Interrupt ==
    /\ pc \in {"classifyAllVideos", "classifyAll", "analyzeAllVideos", "analyzeAll"}
    /\ pc' = "interrupted"
    /\ UNCHANGED <<extraVars, storeVars, aiVars, enrichVars, video, blocklist,
                   channelProfile, result, contentRating, parsedRatings,
                   mostRestrictive, videoDetails, channelProfiles, results>>

SpecInterrupt == InitStore /\ [][NextStore \/ Interrupt]_vars

\* C22, for the classification rows: when a run is interrupted after an
\* earlier run of classifyAllVideos had completed, the classification rows
\* that the completed run stored are still in the database.
C22_CommittedRowsSurvive ==
    (/\ pc = "interrupted"
     /\ \E i \in 1..(Len(runs) - 1) : runs[i] = "classifyAllVideos") =>
        LET res == BatchResults(videoDetails, blocklist)
        IN  \A i \in 1..Len(res) :
                \E j \in 1..Len(db.classifications) :
                    db.classifications[j] = classificationRow(res[i])

\* enrichChannelProfiles is stopped inside its loop: the cache object in
\* memory is lost and the cache file is as the last completed run wrote it.
EnrichCrash ==
    /\ pc = "enrich"
    /\ pc' = "crashed"
    /\ UNCHANGED <<extraVars, enrichVars, storeVars, aiVars, video, blocklist,
                   channelProfile, result, contentRating, parsedRatings,
                   mostRestrictive, videoDetails, channelProfiles, results>>

SpecCrash == InitEnrich /\ [][NextEnrich \/ EnrichCrash]_vars

\* C24: when enrichChannelProfiles stops inside its loop, the cache file
\* holds every channel this run fetched successfully, but for the last
\* fetch, which may have been in flight.
C24_CrashLosesOneFetch ==
    pc = "crashed" =>
        \A i \in 1..(Len(fetchLog) - 1) :
            fetchLog[i].channelInfo => fetchLog[i].channelId \in cacheFile

(***************************************************************************)
(* SpecFetch: runs of analyzeVideos over one videos table.                 *)
(***************************************************************************)
\* The classifier, the batch jobs and enrichChannelProfiles are not entered.
IdleJobs ==
    /\ video = Video("none", <<>>, NullText, <<>>, "", "", Rating(<<>>), "null", "null")
    /\ blocklist = EmptyBlocklist
    /\ channelProfile = NoProfile
    /\ result = Idle
    /\ contentRating = Rating(<<>>)
    /\ parsedRatings = <<>>
    /\ mostRestrictive = NullRating
    /\ videoDetails = <<>>
    /\ channelProfiles = <<>>
    /\ results = <<>>
    /\ IdleStore /\ IdleAi /\ IdleEnrich

jobVars ==
    <<storeVars, aiVars, enrichVars, video, blocklist, channelProfile, result,
      contentRating, parsedRatings, mostRestrictive, videoDetails,
      channelProfiles, results>>

MaxIds == 3

\* const batchSize = 50, scaled to the size of the modelled watch history.
BatchSize == 2

StoredIds(store) == {store[i].id : i \in 1..Len(store)}

\* The mutant of uncached: every watched id is requested.
allWatched(ids, store) == ids

\* watchedVideos.map(v => v.videoId).filter(id => !cachedVideoIds.includes(id))
uncached(ids, store) ==
    LET keep(id) == id \notin StoredIds(store)
    IN  SelectSeq(ids, keep)

\* uncachedIds.slice(i, i + batchSize)
batchAt(ids, i) ==
    SubSeq(ids, i + 1, IF i + BatchSize < Len(ids) THEN i + BatchSize ELSE Len(ids))

\* db.insert(videos).values(processedVideos), if processedVideos is not empty
insertVideos(store, items, run) ==
    store \o [k \in 1..Len(items) |-> [id |-> items[k], fetchedIn |-> run]]

InitFetch ==
    /\ \E n \in 1..MaxIds :
          /\ watched = [i \in 1..n |-> VideoId(i)]
          /\ \E cachedIds \in SUBSET {VideoId(i) : i \in 1..n} :
                LET keep(id) == id \in cachedIds
                    ids == SelectSeq(watched, keep)
                IN  videoStore = [k \in 1..Len(ids) |-> [id |-> ids[k], fetchedIn |-> 0]]
    /\ uncachedIds = <<>>
    /\ batchStart = 0
    /\ videoRequests = <<>>
    /\ pastRequests = <<>>
    /\ pc = "analyzeVideos"
    /\ IdleJobs /\ IdleExtra("analyzeVideos")

\* analyzeVideos up to its loop; it returns at once when nothing is uncached.
FetchStart ==
    /\ pc = "analyzeVideos"
    /\ uncachedIds' = uncached(watched, videoStore)
    /\ batchStart' = 0
    /\ videoRequests' = <<>>
    /\ IF uncachedIds' = <<>>
       THEN /\ pastRequests' = Append(pastRequests, <<>>)
            /\ pc' = "fetched"
       ELSE /\ pastRequests' = pastRequests
            /\ pc' = "fetchBatches"
    /\ UNCHANGED <<jobVars, watched, videoStore, profileVars, textVars, downloadVars>>

\* One pass of the loop: fetchVideoBatch returns [] on an error, and else
\* the items the API has for the ids of the batch, in the order asked.
FetchBatch ==
    /\ pc = "fetchBatches"
    /\ batchStart < Len(uncachedIds)
    /\ LET batch == batchAt(uncachedIds, batchStart)
       IN  \E ok \in BOOLEAN, found \in SUBSET Listed(batch) :
              LET keep(id) == id \in found
                  fetchedVideos == IF ok THEN SelectSeq(batch, keep) ELSE <<>>
              IN  /\ ok \/ found = {}
                  /\ videoRequests' = Append(videoRequests,
                         [ids |-> batch, ok |-> ok, items |-> fetchedVideos])
                  /\ videoStore' = IF fetchedVideos # <<>>
                                   THEN insertVideos(videoStore, fetchedVideos,
                                                     Len(pastRequests) + 1)
                                   ELSE videoStore
    /\ batchStart' = batchStart + BatchSize
    /\ UNCHANGED <<jobVars, watched, uncachedIds, pastRequests, profileVars,
                   textVars, downloadVars, pc>>

\* After the loop analyzeVideos returns the rows of the table.
FetchReturn ==
    /\ pc = "fetchBatches"
    /\ batchStart >= Len(uncachedIds)
    /\ pastRequests' = Append(pastRequests, videoRequests)
    /\ pc' = "fetched"
    /\ UNCHANGED <<jobVars, watched, videoStore, uncachedIds, batchStart,
                   videoRequests, profileVars, textVars, downloadVars>>

\* The job is run again over the same watch history.
FetchAgain ==
    /\ pc = "fetched"
    /\ Len(pastRequests) < MaxRuns
    /\ pc' = "analyzeVideos"
    /\ UNCHANGED <<jobVars, extraVars>>

SpecFetch ==
    InitFetch /\ [][FetchStart \/ FetchBatch \/ FetchReturn \/ FetchAgain]_vars

\* The ids a run asked for, and those of its batches that failed.
Requested(log) == UNION {Listed(log[i].ids) : i \in 1..Len(log)}

FailedIds(log) == UNION {Listed(log[i].ids) : i \in {j \in 1..Len(log) : ~log[j].ok}}

\* C21: analyzeVideos asks only for ids that have no row in the videos
\* table; a row once stored is never fetched again, changed or removed by
\* any step of any run; the ids of a batch whose fetch failed have no row
\* when the run ends and the next run asks for them again.
C21_StoredNeverRefetched ==
    /\ [](\A i, j \in 1..Len(videoStore) :
             videoStore[i].id = videoStore[j].id => i = j)
    /\ [][/\ Len(videoStore') >= Len(videoStore)
          /\ \A i \in 1..Len(videoStore) : videoStore'[i] = videoStore[i]]_vars
    /\ [][Len(videoRequests') > Len(videoRequests) =>
             Listed(videoRequests'[Len(videoRequests')].ids)
                 \cap StoredIds(videoStore) = {}]_vars
    /\ [](\A k \in 1..Len(pastRequests) :
             /\ k = Len(pastRequests) /\ pc = "fetched" =>
                   FailedIds(pastRequests[k]) \cap StoredIds(videoStore) = {}
             /\ k < Len(pastRequests) =>
                   FailedIds(pastRequests[k]) \subseteq Requested(pastRequests[k + 1]))

\* The first run stored v1 and its second batch failed; the second run asked
\* for the ids of that batch alone and stored them beside the older rows.
C21_Witness ==
    /\ pc = "fetched"
    /\ Len(pastRequests) = 2
    /\ Len(pastRequests[1]) = 2
    /\ pastRequests[1][1].ok
    /\ ~pastRequests[1][2].ok
    /\ Requested(pastRequests[2]) = FailedIds(pastRequests[1])
    /\ \E i, j \in 1..Len(videoStore) :
          /\ videoStore[i].fetchedIn = 1
          /\ videoStore[j].fetchedIn = 2

(***************************************************************************)
(* buildChannelProfiles(videoDetails, watchHistory): the watch times and   *)
(* the top categories and tags of a channel.  A JavaScript object is a     *)
(* sequence of [key, count] in insertion order; a key is a string.         *)
(***************************************************************************)
MaxEvents == 3

\* firstWatched: null
NullTime == 0

\* An entry without titleUrl, or one whose titleUrl has no "watch?v=<id>".
NoId == "<none>"

WatchEvent(id, t) == [videoId |-> id, time |-> t]

\* watchTimes[videoId] after getWatchTimes: each entry that resolves to an
\* id assigns watchTimes[id], so the last such entry is the one kept.
getWatchTimes(history, id) ==
    LET hits == {i \in 1..Len(history) : history[i].videoId = id /\ id # NoId}
    IN  IF hits = {} THEN NullTime
        ELSE history[CHOOSE i \in hits : \A j \in hits : j <= i].time

\* obj[key] = (obj[key] || 0) + 1
countKey(obj, key) ==
    IF \E i \in 1..Len(obj) : obj[i].key = key
    THEN [i \in 1..Len(obj) |->
             IF obj[i].key = key THEN [obj[i] EXCEPT !.count = @ + 1] ELSE obj[i]]
    ELSE Append(obj, [key |-> key, count |-> 1])

RECURSIVE countKeys(_, _)
countKeys(obj, keys) ==
    IF keys = <<>> THEN obj ELSE countKeys(countKey(obj, keys[1]), Tail(keys))

\* The array index a property key stands for (the canonical decimal string
\* of an integer), or -1 for any other key.
RECURSIVE DecimalValue(_)
DecimalValue(key) ==
    IF key = <<>> THEN 0
    ELSE 10 * DecimalValue(SubSeq(key, 1, Len(key) - 1))
         + (CHOOSE d \in 0..9 : ToString(d) = key[Len(key)])

ArrayIndex(key) ==
    IF /\ key # <<>>
       /\ \A i \in 1..Len(key) : \E d \in 0..9 : ToString(d) = key[i]
       /\ key[1] = "0" => Len(key) = 1
    THEN DecimalValue(key) ELSE -1

\* Object.entries(obj): integer keys in ascending order, then the other
\* keys in insertion order.
RECURSIVE ascending(_)
ascending(obj) ==
    IF obj = <<>> THEN <<>>
    ELSE LET low == CHOOSE i \in 1..Len(obj) :
                       \A j \in 1..Len(obj) : ArrayIndex(obj[i].key) <= ArrayIndex(obj[j].key)
             rest == [j \in 1..(Len(obj) - 1) |-> IF j < low THEN obj[j] ELSE obj[j + 1]]
         IN  <<obj[low]>> \o ascending(rest)

objectEntries(obj) ==
    LET isIndex(e) == ArrayIndex(e.key) >= 0
        isName(e) == ArrayIndex(e.key) < 0
    IN  ascending(SelectSeq(obj, isIndex)) \o SelectSeq(obj, isName)

\* .sort((a, b) => b[1] - a[1]): stable.
RECURSIVE sortByCount(_)
sortByCount(es) ==
    IF es = <<>> THEN <<>>
    ELSE LET top == CHOOSE i \in 1..Len(es) :
                       /\ \A j \in 1..Len(es) : es[j].count <= es[i].count
                       /\ \A j \in 1..(i - 1) : es[j].count < es[i].count
             rest == [j \in 1..(Len(es) - 1) |-> IF j < top THEN es[j] ELSE es[j + 1]]
         IN  <<es[top]>> \o sortByCount(rest)

\* .slice(0, limit)
topSlice(es, limit) == SubSeq(es, 1, IF Len(es) < limit THEN Len(es) ELSE limit)

TopCategories == 3
TopTags == 10

NewStats(ch) ==
    [channelId |-> ch, categories |-> <<>>, tags |-> <<>>,
     firstWatched |-> NullTime, lastWatched |-> NullTime,
     topCategories |-> <<>>, topTags |-> <<>>]

\* One pass of the first loop of buildChannelProfiles, for the statistics
\* of lines 54-63.
addStats(profs, v, history) ==
    LET known == \E i \in 1..Len(profs) : profs[i].channelId = v.channelId
        ps == IF known THEN profs ELSE Append(profs, NewStats(v.channelId))
        k == CHOOSE i \in 1..Len(ps) : ps[i].channelId = v.channelId
        watchTime == getWatchTimes(history, v.id)
        p1 == [ps[k] EXCEPT
                 !.categories = IF v.categoryId # <<>> THEN countKey(@, v.categoryId) ELSE @,
                 !.tags = countKeys(@, v.tags)]
        p2 == IF watchTime = NullTime THEN p1
              ELSE [p1 EXCEPT
                      !.firstWatched = IF @ = NullTime \/ watchTime < @ THEN watchTime ELSE @,
                      !.lastWatched = IF @ = NullTime \/ watchTime > @ THEN watchTime ELSE @]
    IN  [ps EXCEPT ![k] = p2]

RECURSIVE addAllStats(_, _, _)
addAllStats(profs, vids, history) ==
    IF vids = <<>> THEN profs
    ELSE addAllStats(addStats(profs, vids[1], history), Tail(vids), history)

\* The second loop ("Calculate stats"), for topCategories and topTags.
channelStatistics(vids, history) ==
    LET profs == addAllStats(<<>>, vids, history)
    IN  [i \in 1..Len(profs) |->
            [profs[i] EXCEPT
               !.topCategories = topSlice(sortByCount(objectEntries(profs[i].categories)),
                                          TopCategories),
               !.topTags = topSlice(sortByCount(objectEntries(profs[i].tags)), TopTags)]]

\* The channel of the videos of the modelled corpus: the first two are of
\* one channel.
ChannelOfVideo(i) == IF i <= 2 THEN "UC1" ELSE "UC2"

WatchedVideo(i, cat, tg) ==
    Video(VideoId(i), GraphicNovelReview, NullText, tg, ChannelOfVideo(i), cat,
          Rating(<<>>), "false", "false")

IdleButProfiles ==
    /\ video = Video("none", <<>>, NullText, <<>>, "", "", Rating(<<>>), "null", "null")
    /\ blocklist = EmptyBlocklist
    /\ channelProfile = NoProfile
    /\ result = Idle
    /\ contentRating = Rating(<<>>)
    /\ parsedRatings = <<>>
    /\ mostRestrictive = NullRating
    /\ channelProfiles = <<>>
    /\ results = <<>>
    /\ channelStats = <<>>
    /\ pc = "buildChannelProfiles"
    /\ IdleStore /\ IdleAi /\ IdleEnrich /\ IdleExtra("buildChannelProfiles")

\* Watch histories over a corpus whose categories and tags are fixed.
InitWatch ==
    /\ \E n \in 1..MaxVideos :
          /\ videoDetails = [i \in 1..n |-> WatchedVideo(i, <<"2", "0">>, <<>>)]
          /\ \E m \in 0..MaxEvents :
                \E ev \in [1..m -> ({VideoId(i) : i \in 1..n} \cup {NoId}) \X (1..MaxEvents)] :
                   watchHistory = [i \in 1..m |-> WatchEvent(ev[i][1], ev[i][2])]
    /\ IdleButProfiles

CategoryChoices == {<<>>, <<"1", "0">>, <<"2", "0">>}

TagChoices ==
    {<<>>, <<TagGaming>>, <<TagCookingCap>>, <<TagGaming, TagCookingCap>>,
     <<TagCookingCap, TagGaming, TagGaming>>}

\* Videos with their categories and tags; no watch history.
InitTop ==
    /\ \E n \in 1..MaxVideos :
          \E c \in [1..n -> CategoryChoices \X TagChoices] :
             videoDetails = [i \in 1..n |-> WatchedVideo(i, c[i][1], c[i][2])]
    /\ watchHistory = <<>>
    /\ IdleButProfiles

\* buildChannelProfiles(videoDetails, watchHistory)
BuildProfiles ==
    /\ pc = "buildChannelProfiles"
    /\ channelStats' = channelStatistics(videoDetails, watchHistory)
    /\ pc' = "built"
    /\ UNCHANGED <<storeVars, aiVars, enrichVars, video, blocklist, channelProfile,
                   result, contentRating, parsedRatings, mostRestrictive,
                   videoDetails, channelProfiles, results, watchHistory,
                   fetchVars, textVars, downloadVars>>

SpecWatch == InitWatch /\ [][BuildProfiles]_vars

SpecTop == InitTop /\ [][BuildProfiles]_vars

\* The times of the watch events that resolve to a video of the channel.
TimesOf(ch) ==
    {watchHistory[i].time :
        i \in {j \in 1..Len(watchHistory) :
                  \E k \in 1..Len(videoDetails) :
                      /\ videoDetails[k].id = watchHistory[j].videoId
                      /\ videoDetails[k].channelId = ch}}

\* C26: firstWatched is the earliest and lastWatched the latest time among
\* all watch events that resolve to a video of the channel, repeat views
\* included; both are null exactly when no event resolves to the channel.
C26_WatchedRange ==
    pc = "built" =>
        \A i \in 1..Len(channelStats) :
            LET p == channelStats[i]
                times == TimesOf(p.channelId)
            IN  IF times = {}
                THEN p.firstWatched = NullTime /\ p.lastWatched = NullTime
                ELSE /\ p.firstWatched \in times
                     /\ p.lastWatched \in times
                     /\ \A t \in times : p.firstWatched <= t /\ t <= p.lastWatched

\* The keys of a video in the order they are seen: each occurrence counts.
RECURSIVE SeenKeys(_, _)
SeenKeys(vids, field) ==
    IF vids = <<>> THEN <<>>
    ELSE (IF field = "tags" THEN vids[1].tags
          ELSE IF vids[1].categoryId = <<>> THEN <<>> ELSE <<vids[1].categoryId>>)
         \o SeenKeys(Tail(vids), field)

\* C27: topCategories holds at most 3 category ids and topTags at most 10
\* tags, those with the highest counts in descending order of count, a key
\* seen earlier before a key of equal count seen later; a tag is counted
\* for every occurrence.
C27_TopByCountThenFirstSeen ==
    pc = "built" =>
        \A i \in 1..Len(channelStats) :
            LET p == channelStats[i]
                own(v) == v.channelId = p.channelId
                vids == SelectSeq(videoDetails, own)
            IN  /\ p.topCategories =
                      topSlice(sortByCount(countKeys(<<>>, SeenKeys(vids, "categoryId"))),
                               TopCategories)
                /\ p.topTags =
                      topSlice(sortByCount(countKeys(<<>>, SeenKeys(vids, "tags"))), TopTags)

(***************************************************************************)
(* analyzeWithAI(transcript): the text handed to the model.  A string is   *)
(* the sequence of its UTF-16 code units: "c" is a character of one unit,  *)
(* "hi" and "lo" are the two units of a surrogate pair.                    *)
(***************************************************************************)
\* transcript.substring(0, 10000)
TranscriptBudget == 10000

\* How far the modelled transcripts are from the budget, and how long the
\* short ones are.
MaxOver == 5

\* String.prototype.substring(start, end) for 0 <= start <= end: the code
\* units from start up to end or to the end of the string.
substring(str, start, end) ==
    SubSeq(str, start + 1, IF end < Len(str) THEN end ELSE Len(str))

\* A well-formed string of len units with one surrogate pair, whose first
\* unit is unit number pairAt, or with none (pairAt = 0).
TextWithPair(len, pairAt) ==
    [i \in 1..len |->
        IF pairAt > 0 /\ i = pairAt THEN "hi"
        ELSE IF pairAt > 0 /\ i = pairAt + 1 THEN "lo" ELSE "c"]

InitText ==
    /\ \E len \in (0..MaxOver)
                  \cup ((TranscriptBudget - MaxOver)..(TranscriptBudget + MaxOver)) :
          \E pairAt \in {0} \cup {k \in (len - (2 * MaxOver))..(len - 1) : k > 0} :
             transcript = TextWithPair(len, pairAt)
    /\ truncated = <<>>
    /\ pc = "analyzeWithAI"
    /\ IdleJobs /\ IdleExtra("analyzeWithAI")

\* analyzeWithAI up to the request: truncated goes into the user message.
AnalyzeWithAI ==
    /\ pc = "analyzeWithAI"
    /\ truncated' = substring(transcript, 0, TranscriptBudget)
    /\ pc' = "sent"
    /\ UNCHANGED <<jobVars, transcript, fetchVars, profileVars, downloadVars>>

SpecText == InitText /\ [][AnalyzeWithAI]_vars

\* C28: the text handed to the model is a prefix of the transcript of at
\* most 10000 code units, the whole transcript when that is no longer, and
\* it does not end between the two code units of a surrogate pair.
C28_PrefixKeepsPairs ==
    pc = "sent" =>
        /\ Len(truncated) <= TranscriptBudget
        /\ Len(truncated) <= Len(transcript)
        /\ truncated = SubSeq(transcript, 1, Len(truncated))
        /\ Len(transcript) <= TranscriptBudget => truncated = transcript
        /\ truncated # <<>> => truncated[Len(truncated)] # "hi"

(***************************************************************************)
(* SpecDownload: downloadAllVideos(videoIds, apiEndpoint) with the calls   *)
(* of fetchVideoUrl and downloadVideo it makes.                            *)
(***************************************************************************)
MaxDownloads == 2

\* DEFAULTS.maxRetries, DEFAULTS.retryDelay
maxRetries == 3
retryDelay == 2000

RECURSIVE pow2(_)
pow2(n) == IF n <= 0 THEN 1 ELSE 2 * pow2(n - 1)

\* The mutant of retryWait: the same delay before every retry.
fixedWait(n) == retryDelay

\* DEFAULTS.retryDelay * Math.pow(2, attempt - 1)
retryWait(n) == retryDelay * pow2(n - 1)

\* What one request of fetchVideoUrl can come to: a response with status
\* 429 or 503, any other response that is not ok, a response whose body
\* names an error (one whose text holds "Rate limited" apart), a body
\* without an MP4 URL, a rejected fetch, the abort after DEFAULTS.timeout,
\* or a body with an MP4 URL.
Responses ==
    {"429", "503", "httpError", "apiError", "apiErrorRateLimited", "noUrl",
     "networkError", "timeout", "ok"}

\* The message of the error fetchVideoUrl throws for a response.
messageOf(r) ==
    IF r \in {"429", "503"} THEN "Rate limited - max retries exceeded"
    ELSE IF r = "timeout" THEN "Request timeout"
    ELSE IF r = "httpError" THEN "API error: 500"
    ELSE IF r = "apiError" THEN "API error: failed"
    ELSE IF r = "apiErrorRateLimited" THEN "API error: Rate limited"
    ELSE IF r = "noUrl" THEN "No MP4 URL found in API response"
    ELSE "fetch failed"

\* error.message.includes('Rate limited')
includesRateLimited(message) ==
    message \in {"Rate limited - max retries exceeded", "API error: Rate limited"}

\* fetchVideoUrl calls itself with attempt + 1: after a 429 or 503 if
\* attempt < maxRetries, and in the catch block for an error that is not
\* the abort and whose message does not hold "Rate limited".
retries(r, n) ==
    IF r \in {"429", "503"} THEN n < maxRetries
    ELSE /\ r \notin {"ok", "timeout"}
         /\ n < maxRetries
         /\ ~includesRateLimited(messageOf(r))

\* The mutant of catchError: the loop goes on after a rate-limit error.
catchAndGoOn(res, videoId, message) ==
    [results |-> [res EXCEPT !.failed = IF includesRateLimited(message) THEN @ ELSE @ + 1,
                             !.rateLimited = IF includesRateLimited(message) THEN @ + 1 ELSE @,
                             !.errors = Append(@, [videoId |-> videoId, error |-> message])],
     break |-> FALSE]

\* The catch block of the loop of downloadAllVideos.
catchError(res, videoId, message) ==
    IF includesRateLimited(message)
    THEN [results |-> [res EXCEPT !.rateLimited = @ + 1,
                                  !.errors = Append(@, [videoId |-> videoId, error |-> message])],
          break |-> TRUE]
    ELSE [results |-> [res EXCEPT !.failed = @ + 1,
                                  !.errors = Append(@, [videoId |-> videoId, error |-> message])],
          break |-> FALSE]

InitDownload ==
    /\ \E n \in 1..MaxDownloads :
          /\ videoIds = [i \in 1..n |-> VideoId(i)]
          /\ downloaded \in SUBSET {VideoId(i) : i \in 1..n}
          /\ urlRequests = [i \in 1..n |-> 0]
    /\ dlIndex = 0
    /\ dlResults = NoDownloadResults
    /\ attempt = 0
    /\ waits = <<>>
    /\ response = "none"
    /\ pc = "downloadAllVideos"
    /\ IdleJobs /\ IdleExtra("downloadAllVideos")

\* The head of a pass of the loop: a video whose file exists is skipped,
\* for any other fetchVideoUrl is called with attempt = 1.
DownloadNext ==
    /\ pc = "downloadAllVideos"
    /\ dlIndex < Len(videoIds)
    /\ IF videoIds[dlIndex + 1] \in downloaded
       THEN /\ dlResults' = [dlResults EXCEPT !.skipped = @ + 1]
            /\ dlIndex' = dlIndex + 1
            /\ UNCHANGED <<attempt, waits, response, pc>>
       ELSE /\ attempt' = 1
            /\ waits' = <<>>
            /\ response' = "none"
            /\ pc' = "fetchVideoUrl"
            /\ UNCHANGED <<dlResults, dlIndex>>
    /\ UNCHANGED <<jobVars, fetchVars, profileVars, textVars, videoIds,
                   downloaded, urlRequests>>

\* One request of fetchVideoUrl and what follows it: the sleep and the
\* next attempt, or the return of the URL, or the error, which the catch
\* block of downloadAllVideos counts.
FetchVideoUrl ==
    /\ pc = "fetchVideoUrl"
    /\ \E r \in Responses :
          /\ response' = r
          /\ urlRequests' = [urlRequests EXCEPT ![dlIndex + 1] = @ + 1]
          /\ IF retries(r, attempt)
             THEN /\ waits' = Append(waits, retryWait(attempt))
                  /\ attempt' = attempt + 1
                  /\ UNCHANGED <<dlResults, dlIndex, pc>>
             ELSE IF r = "ok"
             THEN /\ attempt' = 0
                  /\ pc' = "downloadVideo"
                  /\ UNCHANGED <<waits, dlResults, dlIndex>>
             ELSE LET caught == catchError(dlResults, videoIds[dlIndex + 1], messageOf(r))
                  IN  /\ dlResults' = caught.results
                      /\ attempt' = 0
                      /\ dlIndex' = IF caught.break THEN dlIndex ELSE dlIndex + 1
                      /\ pc' = IF caught.break THEN "returned" ELSE "downloadAllVideos"
                      /\ UNCHANGED waits
    /\ UNCHANGED <<jobVars, fetchVars, profileVars, textVars, videoIds, downloaded>>

\* downloadVideo(videoId, url): the file is written, or the error is
\* counted by the catch block (its message never holds "Rate limited").
DownloadVideo ==
    /\ pc = "downloadVideo"
    /\ \E written \in BOOLEAN :
          IF written
          THEN /\ downloaded' = downloaded \cup {videoIds[dlIndex + 1]}
               /\ dlResults' = [dlResults EXCEPT !.success = @ + 1]
          ELSE /\ downloaded' = downloaded
               /\ dlResults' = catchError(dlResults, videoIds[dlIndex + 1],
                                          "Download failed: 404").results
    /\ dlIndex' = dlIndex + 1
    /\ pc' = "downloadAllVideos"
    /\ UNCHANGED <<jobVars, fetchVars, profileVars, textVars, videoIds, attempt,
                   urlRequests, waits, response>>

\* After the last video downloadAllVideos returns results.
DownloadReturn ==
    /\ pc = "downloadAllVideos"
    /\ dlIndex = Len(videoIds)
    /\ pc' = "returned"
    /\ UNCHANGED <<jobVars, extraVars>>

NextDownload == DownloadNext \/ FetchVideoUrl \/ DownloadVideo \/ DownloadReturn

SpecDownload == InitDownload /\ [][NextDownload]_vars

\* Every request is answered, fails or is aborted after DEFAULTS.timeout,
\* and every sleep ends.
SpecDownloadFair == SpecDownload /\ WF_vars(NextDownload)

Counted(res) == res.success + res.failed + res.skipped + res.rateLimited

====
